---- MODULE Spec2Model ----
(***************************************************************************)
(* A model of dunite: the Bedrock session layer (dunite/client.py), the    *)
(* server runtime (dunite/app.py) and the connection runtime               *)
(* (dunite/ws/server.py).  Every action is one run of a coroutine from one *)
(* suspension point (an await that yields to the event loop) to the next.  *)
(***************************************************************************)
EXTENDS Integers, Sequences, FiniteSets, TLC

\* ---------------------------------------------------------------- bounds
MaxCommands == 2        \* run_command calls (fresh requestIds) in one run
MaxInbound == 3         \* data frames the peer sends on one connection
MaxHandlerTasks == 2    \* handler tasks dispatched in one run
MaxInFlight == 1        \* frames sent that the session has not taken up yet
MaxShutdownInbound == 2 \* data frames the peer sends in the shutdown specification

\* ------------------------------------------------------- program constants
CloseCode_NORMAL == 1000
CloseCode_GOING_AWAY == 1001
HttpSwitchingProtocols == 101
\* The statuses of a refused upgrade: 400, and 426 for a version mismatch.
HttpBadRequest == 400
HttpUpgradeRequired == 426
CommandErrorCode == -1
StatusOk == 0
MissingStatusCode == -1

\* ------------------------------------------------------------ value sets
Conns == {"c1", "c2"}
MainConns == {"c1"}
EventTypes == {"PlayerMessage", "BlockPlaced"}
Handlers == {"h1", "h2"}
RIDs == 1..MaxCommands
\* requestIds the peer may put in a reply: those of run_command and one of no call
PeerRids == 0..MaxCommands
\* statusCodes the peer replies with: success and "Unknown command"
StatusCodes == {0, -2147352576}
ShutdownTasks == {"S1", "S2"}

\* The command line each handler of the application passes to ctx.run_command,
\* given by its words.
CommandOf(h) == IF h = "h1" THEN <<"say", "hello">> ELSE <<"list">>

\* Command.parse: the first word is the name, the rest (if any) the args.
CommandParse(line) == [name |-> Head(line), args |-> Tail(line)]

\* Command.__str__: "name args" when there are args, the name alone otherwise.
CommandStr(command) ==
    IF command.args # <<>> THEN <<command.name>> \o command.args ELSE <<command.name>>

VARIABLES
    \* Server (app.py)
    reg,          \* _event_handlers and the handlers' _auto_subscribe attribute
    running,      \* _running
    listening,    \* the listener of _ws_server accepts connections
    mainPc,       \* position of server_main
    clients,      \* _clients
    sd,           \* the _shutdown coroutines: S1 from the signal, S2 from server_main
    \* WebSocketHandler and serve.handle_connection (ws/server.py), per connection
    connPc,       \* position of WebSocketHandler.handle_connection
    servePc,      \* position of serve.handle_connection
    protoState,   \* protocol.state
    hClosed,      \* WebSocketHandler._closed
    sockClosed,   \* writer.close() was called
    written,      \* what was handed to writer.write, in order
    closer,       \* the task suspended inside WebSocketHandler.close
    readerPc,     \* position of _reader_loop
    writerPc,     \* position of _writer_loop
    outgoing,     \* protocol.get_outgoing_data()
    queue,        \* _message_queue
    \* the peer
    hsReq,        \* the upgrade request the peer sent
    inbox,        \* chunks the peer sent that reader.read has not returned yet
    peerEof,      \* the peer closed its side
    nSent,        \* frames the peer has sent
    nDispatch,    \* handler tasks the events sent so far call for
    \* Client (client.py) and Server._handle_client, per connection
    clientPc,     \* position of Server._handle_client
    subTodo,      \* what is left of the iteration over _event_handlers.items()
    cClosed,      \* Client._closed
    subscribed,   \* Client._subscribed_events
    pending,      \* Client._pending_requests: requestId -> future
    msgTasks,     \* the _handle_message tasks created and not yet run, in order
    \* handler tasks and run_command calls
    htasks,       \* the handler tasks dispatched, in the order of their creation
    nextRid       \* stands for uuid.uuid4(): the next fresh requestId

srvVars == <<reg, running, listening, mainPc, clients, sd>>
connVars == <<connPc, servePc, protoState, hClosed, sockClosed, written, closer,
              readerPc, writerPc, outgoing, queue>>
peerVars == <<hsReq, inbox, peerEof, nSent, nDispatch>>
cliVars == <<clientPc, subTodo, cClosed, subscribed, pending, msgTasks>>
taskVars == <<htasks, nextRid>>
vars == <<srvVars, connVars, peerVars, cliVars, taskVars>>

\* ------------------------------------------------------------- helpers
SeqToSet(s) == {s[i] : i \in DOMAIN s}

\* ------------------------------------------------------ frames and messages
\* What one call of writer.write is given: the HTTP response, a text frame or a
\* close frame.  text is the words of body.commandLine, or the one word of
\* body.eventName; bytes tells which bytes of the serialized frame the call
\* carries: "all" of them, or its "header" or its "payload" alone.
HttpResponse(status) ==
    [op |-> "HTTP", purpose |-> "", rid |-> 0, text |-> <<>>, payload |-> <<status>>,
     bytes |-> "all"]
TextFrame(purpose, rid, text) ==
    [op |-> "TEXT", purpose |-> purpose, rid |-> rid, text |-> text, payload |-> <<>>,
     bytes |-> "all"]
\* A send that writes the frame's header, awaits drain, then writes the payload.
SendWrites_HeaderThenPayload(f, phase) ==
    IF phase = "call" THEN <<[f EXCEPT !.bytes = "header"]>>
                      ELSE <<[f EXCEPT !.bytes = "payload"]>>

\* The writer.write calls of WebSocketHandler.send in each phase of the call:
\* "self.writer.write(frame.serialize(mask=False))" hands over the whole frame
\* before "await self.writer.drain()", and nothing is written once drain returned.
SendWrites(f, phase) == IF phase = "call" THEN <<f>> ELSE <<>>
\* Frame(fin=True, opcode=CLOSE, payload=bytes([code >> 8, code & 0xFF]))
CloseFrame(code) ==
    [op |-> "CLOSE", purpose |-> "", rid |-> 0, text |-> <<>>,
     payload |-> <<code \div 256, code % 256>>, bytes |-> "all"]
\* The status code a close frame carries: its first two bytes, big-endian.
CloseStatus(f) == f.payload[1] * 256 + f.payload[2]

\* A JSON envelope the peer sends; shape is what json.loads and _validate_message see.
\* commandLine = <<>> stands for a body without that key.
\* hasStatus tells whether the body carries statusCode and statusMessage: the
\* bodies of commandResponse and error messages do, an event body does not.
Msg(shape, purpose, rid, ev, code, smsg) ==
    [shape |-> shape, purpose |-> purpose, rid |-> rid, eventName |-> ev,
     hasStatus |-> purpose \in {"commandResponse", "error"},
     statusCode |-> code, statusMessage |-> smsg, commandLine |-> <<>>]
NoMsg == Msg("none", "", 0, "", 0, "")
CommandResponseMsg(rid, code) ==
    Msg("ok", "commandResponse", rid, "", code,
        IF code = StatusOk THEN "ok" ELSE "Unknown command")
ErrorMsg(rid) == Msg("ok", "error", rid, "", 1, "Syntax error")
EventMsg(ev, rid) == Msg("ok", "event", rid, ev, 0, "")
\* Text that json.loads rejects.
NotJsonMsg == Msg("notjson", "", 0, "", 0, "")
\* A JSON object without a "header" object.
NoHeaderMsg == Msg("noheader", "", 0, "", 0, "")
\* A header without "messagePurpose".
NoPurposeMsg(rid) == Msg("ok", "", rid, "", 0, "")
\* A purpose that is none of commandResponse, event, error.
UnknownPurposeMsg(rid) == Msg("ok", "chat", rid, "", 0, "")
\* An inbound frame: opcode and, for a text frame, the JSON it carries.
\* An inbound frame with its fin bit; a fragment carries the message it is a
\* part of; payload is the payload of a control frame.
Frame(fin, op, m, payload) == [fin |-> fin, op |-> op, msg |-> m, payload |-> payload]
InFrame(op, m) == Frame(TRUE, op, m, <<>>)
\* frame.payload.decode("utf-8"): the whole JSON text of an unfragmented frame,
\* and of a fragment the part of the text it carries, which is no JSON text.
PayloadText(f) == IF f.fin /\ f.op = "TEXT" THEN f.msg ELSE [f.msg EXCEPT !.shape = "partial"]

\* A future of _pending_requests.
Fut(st, val) == [st |-> st, val |-> val]
\* The outcome of a run_command call, as its caller sees it.
Out(kind, code, msg, command, rid) ==
    [kind |-> kind, code |-> code, msg |-> msg, command |-> command, rid |-> rid]
NoOut == Out("none", 0, "", <<>>, 0)

\* ------------------------------------------------------- handler registry
\* handlers: _event_handlers; order: the insertion order of its keys; auto: each
\* handler's _auto_subscribe attribute (getattr's default is True); flags: the
\* auto_subscribe argument of the latest registration of each handler under each
\* event name (history, kept for the properties only).
EmptyReg ==
    [handlers |-> [e \in EventTypes |-> {}],
     order |-> <<>>,
     auto |-> [h \in Handlers |-> TRUE],
     flags |-> [e \in EventTypes |-> [h \in Handlers |-> "none"]]]

\* Server.on(event_type, auto_subscribe=auto)(handler): setdefault, add, and the
\* flag is stored on the handler itself.
Register(r, ev, h, auto) ==
    [handlers |-> [r.handlers EXCEPT ![ev] = @ \cup {h}],
     order |-> IF ev \in SeqToSet(r.order) THEN r.order ELSE Append(r.order, ev),
     auto |-> [r.auto EXCEPT ![h] = auto],
     flags |-> [r.flags EXCEPT ![ev][h] = IF auto THEN "true" ELSE "false"]]

\* any(getattr(h, "_auto_subscribe", True) for h in handlers)
AnyAuto(r, ev) == \E h \in r.handlers[ev] : r.auto[h]

\* The registry of the application the main specification runs: two handlers
\* of PlayerMessage, both registered with the default auto_subscribe=True.
AppReg ==
    Register(Register(EmptyReg, "PlayerMessage", "h1", TRUE),
             "PlayerMessage", "h2", TRUE)

\* ------------------------------------------------------------------ Init
NoTask == [pc |-> "none", todo |-> <<>>]

InitWith(r, pc) ==
    /\ reg = r
    /\ running = (pc = "serving")
    /\ listening = (pc = "serving")
    /\ mainPc = pc
    /\ clients = {}
    /\ sd = [k \in ShutdownTasks |-> NoTask]
    /\ connPc = [c \in Conns |-> "none"]
    /\ servePc = [c \in Conns |-> "none"]
    /\ protoState = [c \in Conns |-> "CONNECTING"]
    /\ hClosed = [c \in Conns |-> FALSE]
    /\ sockClosed = [c \in Conns |-> FALSE]
    /\ written = [c \in Conns |-> <<>>]
    /\ closer = [c \in Conns |-> "none"]
    /\ readerPc = [c \in Conns |-> "none"]
    /\ writerPc = [c \in Conns |-> "none"]
    /\ outgoing = [c \in Conns |-> <<>>]
    /\ queue = [c \in Conns |-> <<>>]
    /\ hsReq = [c \in Conns |-> "none"]
    /\ inbox = [c \in Conns |-> <<>>]
    /\ peerEof = [c \in Conns |-> FALSE]
    /\ nSent = [c \in Conns |-> 0]
    /\ nDispatch = 0
    /\ clientPc = [c \in Conns |-> "none"]
    /\ subTodo = [c \in Conns |-> <<>>]
    /\ cClosed = [c \in Conns |-> FALSE]
    /\ subscribed = [c \in Conns |-> {}]
    /\ pending = [c \in Conns |-> {}]
    /\ msgTasks = [c \in Conns |-> <<>>]
    /\ htasks = <<>>
    /\ nextRid = 1

\* The application's decorators have run and Server.run is serving.
Init == InitWith(AppReg, "serving")

\* A task is in the middle of a run between two suspension points: no other task
\* runs until it reaches the next one (one event loop, cooperative scheduling).
Urgent ==
    \/ \E c \in Conns : clientPc[c] \in {"sub_loop", "recv_check", "cleanup"}
    \/ \E k \in ShutdownTasks : sd[k].pc \in {"iter", "cancel"}
Idle == ~Urgent

\* ------------------------------------------------- WebSocketHandler.close
\* A close without the "if self._closed: return" guard.
CloseReturnsEarly_Never(c) == FALSE

\* "if self._closed: return"
CloseReturnsEarly(c) == hClosed[c]

\* WebSocketHandler.close(code), called by task who: the first call sets _closed,
\* writes the close frame, drains, calls writer.close() and suspends in
\* wait_closed(); every other call returns at once.
HandlerClose(c, code, who) ==
    IF CloseReturnsEarly(c)
    THEN UNCHANGED <<hClosed, sockClosed, written, closer>>
    ELSE /\ hClosed' = [hClosed EXCEPT ![c] = TRUE]
         /\ written' = [written EXCEPT ![c] = Append(@, CloseFrame(code))]
         /\ sockClosed' = [sockClosed EXCEPT ![c] = TRUE]
         /\ closer' = [closer EXCEPT ![c] = who]

\* ------------------------------------------------------- Client helpers
\* Client.closed
ClientClosed(c) == cClosed[c] \/ hClosed[c]

\* A send_message, and a send under it, without the "if self.closed" guards.
SendMessageRaises_Never(c) == FALSE

\* Client.send_message raises ClientError: "if self.closed" there, and
\* "if self.closed" of WebSocketHandler.send, which it wraps.
SendMessageRaises(c) == ClientClosed(c) \/ hClosed[c]

\* _validate_message accepts the message (json.loads succeeded before it).
ValidMessage(m) ==
    /\ m.shape = "ok"
    /\ m.purpose \in {"commandResponse", "event", "error"}

\* A handle_message without the "if not future.done()" test: a later reply
\* replaces the result of a future that is still in the table.
HandleMessage_SetAgain(ts, c, m) ==
    [i \in DOMAIN ts |->
        IF /\ m.rid \in pending[c]
           /\ ts[i].rid = m.rid
           /\ ts[i].fut.st \in {"pending", "set"}
        THEN [ts[i] EXCEPT !.fut = Fut("set", m)]
        ELSE ts[i]]

\* A handle_message that resolves every waiting future of the session with the
\* message, whatever requestId installed it.
HandleMessage_AnyWaiter(ts, c, m) ==
    [i \in DOMAIN ts |->
        IF /\ m.rid \in pending[c]
           /\ ts[i].rid \in pending[c]
           /\ ts[i].fut.st = "pending"
        THEN [ts[i] EXCEPT !.fut = Fut("set", m)]
        ELSE ts[i]]

\* Client.handle_message: the future of header.requestId, if that is a key of
\* _pending_requests and the future is not done, gets the message as its result.
HandleMessage(ts, c, m) ==
    [i \in DOMAIN ts |->
        IF /\ m.rid \in pending[c]
           /\ ts[i].rid = m.rid
           /\ ts[i].fut.st = "pending"
        THEN [ts[i] EXCEPT !.fut = Fut("set", m)]
        ELSE ts[i]]

\* A Client.close that clears the table without cancelling the futures.
CancelPending_None(ts, c) == ts

\* Client.close, after handler.close returned: every future that is not done is
\* cancelled (the table is cleared by the caller of this operator).
CancelPending(ts, c) ==
    [i \in DOMAIN ts |->
        IF ts[i].rid \in pending[c] /\ ts[i].fut.st = "pending"
        THEN [ts[i] EXCEPT !.fut = Fut("cancelled", NoMsg)]
        ELSE ts[i]]

\* ----------------------------------------------------------------- peer
\* The peer sends its upgrade request.  (Nothing the peer sends arrives once
\* writer.close() was called.)
PeerHandshake(c, req) ==
    /\ Idle
    /\ connPc[c] # "none"
    /\ hsReq[c] = "none"
    /\ ~peerEof[c]
    /\ ~sockClosed[c]
    /\ hsReq' = [hsReq EXCEPT ![c] = req]
    /\ UNCHANGED <<srvVars, connVars, cliVars, taskVars, inbox, peerEof, nSent, nDispatch>>

\* Handler tasks an inbound frame will make the server dispatch.
DispatchCount(f) ==
    IF f.op = "TEXT" /\ ValidMessage(PayloadText(f)) /\ f.msg.purpose = "event"
       /\ f.msg.eventName \in EventTypes
    THEN Cardinality(reg.handlers[f.msg.eventName])
    ELSE 0

\* The peer sends one frame, after it has seen the 101 response.
PeerSend(c, f) ==
    /\ Idle
    /\ \E i \in DOMAIN written[c] : written[c][i].op = "HTTP"
    /\ ~peerEof[c]
    /\ ~sockClosed[c]
    /\ nSent[c] < MaxInbound
    /\ Len(inbox[c]) + Len(queue[c]) + Len(msgTasks[c]) < MaxInFlight
    /\ nDispatch + DispatchCount(f) <= MaxHandlerTasks
    /\ inbox' = [inbox EXCEPT ![c] = Append(@, <<f>>)]
    /\ nSent' = [nSent EXCEPT ![c] = @ + 1]
    /\ nDispatch' = nDispatch + DispatchCount(f)
    /\ UNCHANGED <<srvVars, connVars, cliVars, taskVars, hsReq, peerEof>>

\* The peer closes the socket: reader.read returns b"" once it has returned
\* everything sent before.  Before the upgrade request, the handshake reads EOF.
\* (The end of the stream is no frame: it may follow MaxInFlight frames.)
PeerEof(c) ==
    /\ Idle
    /\ connPc[c] # "none"
    /\ ~peerEof[c]
    /\ ~sockClosed[c]
    /\ Len(inbox[c]) + Len(queue[c]) + Len(msgTasks[c]) <= MaxInFlight
    /\ peerEof' = [peerEof EXCEPT ![c] = TRUE]
    /\ hsReq' = [hsReq EXCEPT ![c] = IF @ = "none" THEN "eof" ELSE @]
    /\ inbox' = [inbox EXCEPT ![c] = Append(@, <<InFrame("EOF", NoMsg)>>)]
    /\ UNCHANGED <<srvVars, connVars, cliVars, taskVars, nSent, nDispatch>>

\* --------------------------------------------- serve.handle_connection
\* A connection is accepted: the WebSocketHandler is built and the connection
\* task and the application's handler task are created.
Accept(c) ==
    /\ Idle
    /\ listening
    /\ connPc[c] = "none"
    /\ connPc' = [connPc EXCEPT ![c] = "hs_read"]
    /\ clientPc' = [clientPc EXCEPT ![c] = "start"]
    /\ servePc' = [servePc EXCEPT ![c] = "gather"]
    /\ UNCHANGED <<srvVars, peerVars, taskVars, protoState, hClosed, sockClosed, written,
                   closer, readerPc, writerPc, outgoing, queue, subTodo, cClosed,
                   subscribed, pending, msgTasks>>

\* gather(connection_task, handler_task) returned; finally: ws_handler.close().
ServeDone(c) ==
    /\ Idle
    /\ servePc[c] = "gather"
    /\ connPc[c] = "done"
    /\ clientPc[c] = "done"
    /\ HandlerClose(c, CloseCode_NORMAL, "serve")
    /\ servePc' = [servePc EXCEPT ![c] = IF CloseReturnsEarly(c) THEN "done" ELSE "closing"]
    /\ UNCHANGED <<srvVars, peerVars, cliVars, taskVars, connPc, protoState, readerPc,
                   writerPc, outgoing, queue>>

\* ------------------------------------ WebSocketHandler.handle_connection
\* _handle_handshake: reader.read returned.  A valid request gets the 101
\* response; EOF or a request that validate_handshake rejects raises, and
\* handle_connection logs the error and closes.
ConnHandshake(c) ==
    /\ Idle
    /\ connPc[c] = "hs_read"
    /\ hsReq[c] # "none" \/ sockClosed[c]
    /\ IF hsReq[c] = "valid"
       THEN /\ written' = [written EXCEPT ![c] =
                              Append(@, HttpResponse(HttpSwitchingProtocols))]
            /\ connPc' = [connPc EXCEPT ![c] = "hs_drain"]
            /\ UNCHANGED <<hClosed, sockClosed, closer>>
       ELSE /\ HandlerClose(c, CloseCode_NORMAL, "conn")
            /\ connPc' = [connPc EXCEPT ![c] =
                              IF CloseReturnsEarly(c) THEN "done" ELSE "closing"]
    /\ UNCHANGED <<srvVars, peerVars, cliVars, taskVars, servePc, protoState, readerPc,
                   writerPc, outgoing, queue>>

\* writer.drain() returned: protocol.state becomes OPEN, the reader and writer
\* tasks are created and handle_connection waits for the first to complete.
ConnHandshakeDone(c) ==
    /\ Idle
    /\ connPc[c] = "hs_drain"
    /\ protoState' = [protoState EXCEPT ![c] = "OPEN"]
    /\ readerPc' = [readerPc EXCEPT ![c] = "read"]
    /\ writerPc' = [writerPc EXCEPT ![c] = "run"]
    /\ connPc' = [connPc EXCEPT ![c] = "wait"]
    /\ UNCHANGED <<srvVars, peerVars, cliVars, taskVars, servePc, hClosed, sockClosed,
                   written, closer, outgoing, queue>>

\* asyncio.wait returned (one loop is done): the other is cancelled and awaited,
\* then finally: self.close().  A reader cancelled inside close() leaves it.
ConnWaitDone(c) ==
    /\ Idle
    /\ connPc[c] = "wait"
    /\ readerPc[c] = "done" \/ writerPc[c] = "done"
    /\ readerPc' = [readerPc EXCEPT ![c] = "done"]
    /\ writerPc' = [writerPc EXCEPT ![c] = "done"]
    /\ IF CloseReturnsEarly(c)
       THEN /\ closer' = [closer EXCEPT ![c] = IF @ = "reader" THEN "none" ELSE @]
            /\ UNCHANGED <<hClosed, sockClosed, written>>
       ELSE HandlerClose(c, CloseCode_NORMAL, "conn")
    /\ connPc' = [connPc EXCEPT ![c] = IF CloseReturnsEarly(c) THEN "done" ELSE "closing"]
    /\ UNCHANGED <<srvVars, peerVars, cliVars, taskVars, servePc, protoState, outgoing,
                   queue>>

\* wait_closed() returned in the close() that handle_connection called.
ConnCloseDone(c) ==
    /\ Idle
    /\ connPc[c] = "closing"
    /\ closer[c] = "conn"
    /\ closer' = [closer EXCEPT ![c] = "none"]
    /\ connPc' = [connPc EXCEPT ![c] = "done"]
    /\ UNCHANGED <<srvVars, peerVars, cliVars, taskVars, servePc, protoState, hClosed,
                   sockClosed, written, readerPc, writerPc, outgoing, queue>>

\* -------------------------------------------------------- _reader_loop
\* parse_frame(data): the first frame of what reader.read returned.
ParseFrame(chunk) == Head(chunk)

\* reader.read returned: b"" (the peer closed, or writer.close() was called)
\* breaks the loop; a TEXT frame is queued; a CLOSE frame breaks the loop; then
\* "while not self.closed"; on leaving the loop, finally: self.close().
ReaderStep(c) ==
    /\ Idle
    /\ readerPc[c] = "read"
    /\ inbox[c] # <<>> \/ sockClosed[c]
    /\ LET data == IF inbox[c] = <<>> THEN <<InFrame("EOF", NoMsg)>> ELSE Head(inbox[c])
           frame == ParseFrame(data)
           leave == frame.op = "EOF" \/ frame.op = "CLOSE" \/ hClosed[c]
       IN /\ inbox' = [inbox EXCEPT ![c] = IF @ = <<>> THEN @ ELSE Tail(@)]
          /\ queue' = [queue EXCEPT ![c] =
                          IF frame.op = "TEXT" THEN Append(@, PayloadText(frame)) ELSE @]
          /\ IF leave
             THEN /\ HandlerClose(c, CloseCode_NORMAL, "reader")
                  /\ readerPc' = [readerPc EXCEPT ![c] =
                                     IF CloseReturnsEarly(c) THEN "done" ELSE "closing"]
             ELSE UNCHANGED <<hClosed, sockClosed, written, closer, readerPc>>
    /\ UNCHANGED <<srvVars, cliVars, taskVars, hsReq, peerEof, nSent, nDispatch, connPc,
                   servePc, protoState, writerPc, outgoing>>

\* wait_closed() returned in the close() that the reader loop called.
ReaderCloseDone(c) ==
    /\ Idle
    /\ readerPc[c] = "closing"
    /\ closer[c] = "reader"
    /\ closer' = [closer EXCEPT ![c] = "none"]
    /\ readerPc' = [readerPc EXCEPT ![c] = "done"]
    /\ UNCHANGED <<srvVars, peerVars, cliVars, taskVars, connPc, servePc, protoState,
                   hClosed, sockClosed, written, writerPc, outgoing, queue>>

\* -------------------------------------------------------- _writer_loop
\* asyncio.sleep(0.01) returned: "while not self.closed" writes what the
\* protocol has to send; once closed the loop ends and finally: self.close().
WriterTick(c) ==
    /\ Idle
    /\ writerPc[c] = "run"
    /\ hClosed[c] \/ outgoing[c] # <<>>
    /\ IF hClosed[c]
       THEN /\ writerPc' = [writerPc EXCEPT ![c] = "done"]
            /\ UNCHANGED <<written, outgoing>>
       ELSE /\ written' = [written EXCEPT ![c] = @ \o outgoing[c]]
            /\ outgoing' = [outgoing EXCEPT ![c] = <<>>]
            /\ UNCHANGED writerPc
    /\ UNCHANGED <<srvVars, peerVars, cliVars, taskVars, connPc, servePc, protoState,
                   hClosed, sockClosed, closer, readerPc, queue>>

\* ------------------------------------------------ Server._handle_client
\* client = Client(handler); self._clients.add(client); the iteration over
\* _event_handlers.items() begins.
ClientStart(c) ==
    /\ Idle
    /\ clientPc[c] = "start"
    /\ clients' = clients \cup {c}
    /\ subTodo' = [subTodo EXCEPT ![c] = reg.order]
    /\ clientPc' = [clientPc EXCEPT ![c] = "sub_loop"]
    /\ UNCHANGED <<reg, running, listening, mainPc, sd, connVars, peerVars, taskVars,
                   cClosed, subscribed, pending, msgTasks>>

\* A subscribe without its "already subscribed" check.
SubscribeReturnsEarly_Never(c, ev) == FALSE

\* Client.subscribe(ev) sends: "if event_type in self._subscribed_events: return".
SubscribeReturnsEarly(c, ev) == ev \in subscribed[c]

\* Client.unsubscribe(ev): "if event_type not in self._subscribed_events: return".
UnsubscribeReturnsEarly(c, ev) == ev \notin subscribed[c]

\* A subscribe that records every event name once its message is sent.
AfterSubscribe_All(c, ev) == [subscribed EXCEPT ![c] = EventTypes]

\* self._subscribed_events.add(event_type), after send_message returned.
AfterSubscribe(c, ev) == [subscribed EXCEPT ![c] = @ \cup {ev}]

\* self._subscribed_events.remove(event_type), after send_message returned.
AfterUnsubscribe(c, ev) == [subscribed EXCEPT ![c] = @ \ {ev}]

\* One turn of "for event_type, handlers in items(): if any(...): await
\* client.subscribe(event_type)".  subscribe returns at once for a subscribed
\* name; a send on a closed client raises SubscriptionError, which ends
\* _handle_client; otherwise the subscribe frame is written and drain awaited.
ClientSubLoop(c) ==
    /\ clientPc[c] = "sub_loop"
    /\ IF subTodo[c] = <<>>
       THEN /\ clientPc' = [clientPc EXCEPT ![c] = "recv_check"]
            /\ UNCHANGED <<subTodo, written>>
       ELSE LET ev == Head(subTodo[c]) IN
            IF ~AnyAuto(reg, ev) \/ SubscribeReturnsEarly(c, ev)
            THEN /\ subTodo' = [subTodo EXCEPT ![c] = Tail(@)]
                 /\ UNCHANGED <<clientPc, written>>
            ELSE IF SendMessageRaises(c)
            THEN /\ clientPc' = [clientPc EXCEPT ![c] = "cleanup"]
                 /\ UNCHANGED <<subTodo, written>>
            ELSE /\ written' = [written EXCEPT ![c] =
                        @ \o SendWrites(TextFrame("subscribe", 0, <<ev>>), "call")]
                 /\ clientPc' = [clientPc EXCEPT ![c] = "sub_drain"]
                 /\ UNCHANGED subTodo
    /\ UNCHANGED <<srvVars, peerVars, taskVars, connPc, servePc, protoState, hClosed,
                   sockClosed, closer, readerPc, writerPc, outgoing, queue, cClosed,
                   subscribed, pending, msgTasks>>

\* drain returned in subscribe: self._subscribed_events.add(event_type).
ClientSubDrainDone(c) ==
    /\ Idle
    /\ clientPc[c] = "sub_drain"
    /\ written' = [written EXCEPT ![c] =
            @ \o SendWrites(TextFrame("subscribe", 0, <<Head(subTodo[c])>>), "drained")]
    /\ subscribed' = AfterSubscribe(c, Head(subTodo[c]))
    /\ subTodo' = [subTodo EXCEPT ![c] = Tail(@)]
    /\ clientPc' = [clientPc EXCEPT ![c] = "sub_loop"]
    /\ UNCHANGED <<srvVars, peerVars, taskVars, cClosed, pending, msgTasks, connPc,
                   servePc, protoState, hClosed, sockClosed, closer, readerPc, writerPc,
                   outgoing, queue>>

\* A receive loop whose newest _handle_message task runs first.
Received_NewestFirst(c, m) ==
    IF ValidMessage(m) THEN <<m>> \o msgTasks[c] ELSE msgTasks[c]

\* receive_message returned data: a message that json.loads and
\* _validate_message accept becomes a _handle_message task; any other raises,
\* which the loop logs.
Received(c, m) ==
    IF ValidMessage(m) THEN Append(msgTasks[c], m) ELSE msgTasks[c]

\* "while not client.closed: message = await client.receive_message()": a
\* closed client leaves the loop; a queued message is taken at once; an empty
\* queue suspends the task in _message_queue.get().
ClientRecvCheck(c) ==
    /\ clientPc[c] = "recv_check"
    /\ IF ClientClosed(c)
       THEN /\ clientPc' = [clientPc EXCEPT ![c] = "cleanup"]
            /\ UNCHANGED <<queue, msgTasks>>
       ELSE IF queue[c] = <<>>
       THEN /\ clientPc' = [clientPc EXCEPT ![c] = "recv"]
            /\ UNCHANGED <<queue, msgTasks>>
       ELSE /\ msgTasks' = [msgTasks EXCEPT ![c] = Received(c, Head(queue[c]))]
            /\ queue' = [queue EXCEPT ![c] = Tail(@)]
            /\ UNCHANGED clientPc
    /\ UNCHANGED <<srvVars, peerVars, taskVars, connPc, servePc, protoState, hClosed,
                   sockClosed, written, closer, readerPc, writerPc, outgoing, subTodo,
                   cClosed, subscribed, pending>>

\* _message_queue.get() returned the message a put made available.
ClientRecvWake(c) ==
    /\ Idle
    /\ clientPc[c] = "recv"
    /\ queue[c] # <<>>
    /\ msgTasks' = [msgTasks EXCEPT ![c] = Received(c, Head(queue[c]))]
    /\ queue' = [queue EXCEPT ![c] = Tail(@)]
    /\ clientPc' = [clientPc EXCEPT ![c] = "recv_check"]
    /\ UNCHANGED <<srvVars, peerVars, taskVars, connPc, servePc, protoState, hClosed,
                   sockClosed, written, closer, readerPc, writerPc, outgoing, subTodo,
                   cClosed, subscribed, pending>>

\* ------------------------------ Server._cleanup_client and Client.close
\* "if self._closed: return"
ClientCloseReturnsEarly(c) == cClosed[c]

\* The close code Client.close passes to handler.close.
ClientCloseCode == CloseCode_NORMAL

\* _cleanup_client(client) called by task who, up to the first suspension:
\* Client.close returns at once when _closed is set; otherwise it sets it and
\* calls handler.close.  When that returns at once the futures are cancelled,
\* the table cleared and the client discarded from _clients; when it suspends
\* (suspended' is TRUE) the rest runs in CleanupFinish.
CleanupBegin(c, who) ==
    IF ClientCloseReturnsEarly(c)
    THEN /\ clients' = clients \ {c}
         /\ UNCHANGED <<cClosed, hClosed, sockClosed, written, closer, pending, htasks>>
    ELSE /\ cClosed' = [cClosed EXCEPT ![c] = TRUE]
         /\ HandlerClose(c, ClientCloseCode, who)
         /\ IF CloseReturnsEarly(c)
            THEN /\ htasks' = CancelPending(htasks, c)
                 /\ pending' = [pending EXCEPT ![c] = {}]
                 /\ clients' = clients \ {c}
            ELSE UNCHANGED <<htasks, pending, clients>>
CleanupSuspends(c) == ~ClientCloseReturnsEarly(c) /\ ~CloseReturnsEarly(c)

\* handler.close returned to Client.close: cancel the futures that are not done,
\* clear the table; back in _cleanup_client: self._clients.discard(client).
CleanupFinish(c) ==
    /\ htasks' = CancelPending(htasks, c)
    /\ pending' = [pending EXCEPT ![c] = {}]
    /\ clients' = clients \ {c}
    /\ closer' = [closer EXCEPT ![c] = "none"]

\* finally: await self._cleanup_client(client) in _handle_client.
ClientCleanup(c) ==
    /\ clientPc[c] = "cleanup"
    /\ CleanupBegin(c, "client")
    /\ clientPc' = [clientPc EXCEPT ![c] = IF CleanupSuspends(c) THEN "closing" ELSE "done"]
    /\ UNCHANGED <<reg, running, listening, mainPc, sd, peerVars, connPc, servePc,
                   protoState, readerPc, writerPc, outgoing, queue, subTodo, subscribed,
                   msgTasks, nextRid>>

\* ----------------------------------------------- Server._handle_message
HandlerSeq(S) == SelectSeq(<<"h1", "h2">>, LAMBDA h : h \in S)
NewTask(c, h) ==
    [conn |-> c, h |-> h, st |-> "ready", rid |-> 0, fut |-> Fut("none", NoMsg),
     out |-> NoOut, call |-> "none", ev |-> ""]
RECURSIVE NewTasks(_, _)
NewTasks(c, hs) ==
    IF hs = <<>> THEN <<>> ELSE <<NewTask(c, Head(hs))>> \o NewTasks(c, Tail(hs))

\* A dispatch that stops after the first registered handler.
Dispatched_FirstOnly(m) ==
    IF m.purpose = "event" /\ m.eventName \in EventTypes
    THEN SubSeq(HandlerSeq(reg.handlers[m.eventName]), 1, 1)
    ELSE <<>>

\* The handlers _handle_message dispatches for a message: those registered for
\* body.eventName when the purpose is "event" and the name is an EventType.
Dispatched(m) ==
    IF m.purpose = "event" /\ m.eventName \in EventTypes
    THEN HandlerSeq(reg.handlers[m.eventName])
    ELSE <<>>

\* The oldest _handle_message task runs: client.handle_message(message), then
\* one task per handler registered for the event.
RunHandleMessage(c) ==
    /\ Idle
    /\ msgTasks[c] # <<>>
    /\ LET m == Head(msgTasks[c]) IN
       htasks' = HandleMessage(htasks, c, m) \o NewTasks(c, Dispatched(m))
    /\ msgTasks' = [msgTasks EXCEPT ![c] = Tail(@)]
    /\ UNCHANGED <<srvVars, connVars, peerVars, clientPc, subTodo, cClosed, subscribed,
                   pending, nextRid>>

\* ---------------------------------- handler tasks and Client.run_command
\* The handler returns without running a command.
HandlerReturn(i) ==
    /\ Idle
    /\ i \in DOMAIN htasks
    /\ htasks[i].st = "ready"
    /\ htasks' = [htasks EXCEPT ![i].st = "done"]
    /\ UNCHANGED <<srvVars, connVars, peerVars, cliVars, nextRid>>

\* The handler raises: the exception stays in the handler's own task.
HandlerRaise(i) ==
    /\ Idle
    /\ i \in DOMAIN htasks
    /\ htasks[i].st = "ready"
    /\ htasks' = [htasks EXCEPT ![i] =
            [@ EXCEPT !.st = "failed", !.out = Out("raised", 0, "", <<>>, 0)]]
    /\ UNCHANGED <<srvVars, connVars, peerVars, cliVars, nextRid>>

\* The handler calls ctx.subscribe(ev) or ctx.unsubscribe(ev), up to the first
\* suspension: the call returns at once when there is nothing to change; on a
\* closed client send_message raises, which the call turns into
\* SubscriptionError; otherwise the message is written and drain awaited.
HandlerSubCall(i, call, ev) ==
    /\ Idle
    /\ i \in DOMAIN htasks
    /\ htasks[i].st = "ready"
    /\ LET c == htasks[i].conn
           t == [htasks[i] EXCEPT !.call = call, !.ev = ev]
           early == IF call = "subscribe" THEN SubscribeReturnsEarly(c, ev)
                                          ELSE UnsubscribeReturnsEarly(c, ev)
       IN IF early
          THEN /\ htasks' = [htasks EXCEPT ![i] = [t EXCEPT !.st = "done"]]
               /\ UNCHANGED written
          ELSE IF SendMessageRaises(c)
          THEN /\ htasks' = [htasks EXCEPT ![i] =
                       [t EXCEPT !.st = "failed",
                                 !.out = Out("subscription_error", 0, ev, <<>>, 0)]]
               /\ UNCHANGED written
          ELSE /\ htasks' = [htasks EXCEPT ![i] = [t EXCEPT !.st = "sub_send"]]
               /\ written' = [written EXCEPT ![c] =
                      @ \o SendWrites(TextFrame(call, 0, <<ev>>), "call")]
    /\ UNCHANGED <<srvVars, peerVars, cliVars, nextRid, connPc, servePc, protoState,
                   hClosed, sockClosed, closer, readerPc, writerPc, outgoing, queue>>

\* drain returned in the send of a subscribe or unsubscribe: the set is
\* updated.  remove raises KeyError when another unsubscribe took the name out
\* meanwhile, which the call turns into SubscriptionError.
HandlerSubSent(i) ==
    /\ Idle
    /\ i \in DOMAIN htasks
    /\ htasks[i].st = "sub_send"
    /\ LET c == htasks[i].conn
           ev == htasks[i].ev
       IN IF htasks[i].call = "subscribe"
          THEN /\ subscribed' = AfterSubscribe(c, ev)
               /\ htasks' = [htasks EXCEPT ![i].st = "done"]
          ELSE IF ev \in subscribed[c]
          THEN /\ subscribed' = AfterUnsubscribe(c, ev)
               /\ htasks' = [htasks EXCEPT ![i].st = "done"]
          ELSE /\ htasks' = [htasks EXCEPT ![i] =
                       [@ EXCEPT !.st = "failed",
                                 !.out = Out("subscription_error", 0, ev, <<>>, 0)]]
               /\ UNCHANGED subscribed
    /\ written' = [written EXCEPT ![htasks[i].conn] =
            @ \o SendWrites(TextFrame(htasks[i].call, 0, <<htasks[i].ev>>), "drained")]
    /\ UNCHANGED <<srvVars, peerVars, clientPc, subTodo, cClosed, pending, msgTasks,
                   nextRid, connPc, servePc, protoState, hClosed, sockClosed, closer,
                   readerPc, writerPc, outgoing, queue>>

\* drain raised in the send of a subscribe or unsubscribe (the connection was
\* lost under it): send_message raises ClientError, the call SubscriptionError.
HandlerSubSendFails(i) ==
    /\ Idle
    /\ i \in DOMAIN htasks
    /\ htasks[i].st = "sub_send"
    /\ peerEof[htasks[i].conn] \/ sockClosed[htasks[i].conn]
    /\ htasks' = [htasks EXCEPT ![i] =
            [@ EXCEPT !.st = "failed",
                      !.out = Out("subscription_error", 0, htasks[i].ev, <<>>, 0)]]
    /\ UNCHANGED <<srvVars, connVars, peerVars, cliVars, nextRid>>

\* The commandRequest frame of run_command: "commandLine": str(command).
CommandRequest(rid, command) == TextFrame("commandRequest", rid, CommandStr(command))

\* A run_command that puts the future in the table only when send_message has
\* returned.
Installed_AfterSend(c, rid, phase) ==
    IF phase = "drained" THEN [pending EXCEPT ![c] = @ \cup {rid}] ELSE pending

\* self._pending_requests[request_id] = future, before "await
\* self.send_message(message)": the table when send_message is called and when
\* it has returned.
Installed(c, rid, phase) ==
    IF phase = "call" THEN [pending EXCEPT ![c] = @ \cup {rid}] ELSE pending

\* The handler calls ctx.run_command, which parses the command line and calls
\* Client.run_command: a fresh requestId, the future installed
\* in _pending_requests, then send_message.  On a closed client that raises
\* ClientError and finally pops the entry; otherwise the commandRequest frame is
\* written and the call suspends in drain.
RunCommandStart(i) ==
    /\ Idle
    /\ i \in DOMAIN htasks
    /\ htasks[i].st = "ready"
    /\ nextRid <= MaxCommands
    /\ LET c == htasks[i].conn
           command == CommandParse(CommandOf(htasks[i].h))
       IN /\ nextRid' = nextRid + 1
          /\ IF SendMessageRaises(c)
             THEN /\ htasks' = [htasks EXCEPT ![i] =
                        [@ EXCEPT !.st = "failed", !.rid = nextRid,
                                  !.fut = Fut("pending", NoMsg),
                                  !.out = Out("client_error", 0, "Connection is closed",
                                              <<>>, 0)]]
                  /\ UNCHANGED <<pending, written>>
             ELSE /\ htasks' = [htasks EXCEPT ![i] =
                        [@ EXCEPT !.st = "send", !.rid = nextRid,
                                  !.fut = Fut("pending", NoMsg)]]
                  /\ pending' = Installed(c, nextRid, "call")
                  /\ written' = [written EXCEPT ![c] =
                        @ \o SendWrites(CommandRequest(nextRid, command), "call")]
    /\ UNCHANGED <<srvVars, peerVars, connPc, servePc, protoState, hClosed, sockClosed,
                   closer, readerPc, writerPc, outgoing, queue, clientPc, subTodo,
                   cClosed, subscribed, msgTasks>>

\* command=self.raw_response.get("body", {}).get("commandLine", "unknown")
ResponseCommandLine(m) == IF m.commandLine = <<>> THEN <<"unknown">> ELSE m.commandLine

\* body.get("statusCode", -1) and body.get("statusMessage", "Unknown error")
BodyStatusCode(m) == IF m.hasStatus THEN m.statusCode ELSE MissingStatusCode
BodyStatusMessage(m) == IF m.hasStatus THEN m.statusMessage ELSE "Unknown error"

\* What run_command does with the result of its future: an "error" purpose
\* raises CommandError(statusMessage, -1, str(command)); CommandResponse.from_dict
\* raises CommandError(statusMessage, statusCode, ...) for a non-zero statusCode
\* (__post_init__) and is returned otherwise.
ReplyOutcome(m, command) ==
    IF m.purpose = "error"
    THEN Out("command_error", CommandErrorCode, m.statusMessage, CommandStr(command), m.rid)
    ELSE IF BodyStatusCode(m) # StatusOk
    THEN Out("command_error", BodyStatusCode(m), BodyStatusMessage(m),
             ResponseCommandLine(m), m.rid)
    ELSE Out("ok", BodyStatusCode(m), BodyStatusMessage(m), <<>>, m.rid)

\* The call of task t ends on its done future: the reply's outcome, or
\* CancelledError when the future was cancelled.
Finished(t) ==
    IF t.fut.st = "set"
    THEN LET o == ReplyOutcome(t.fut.val, CommandParse(CommandOf(t.h))) IN
         [t EXCEPT !.out = o, !.st = IF o.kind = "ok" THEN "done" ELSE "failed"]
    ELSE [t EXCEPT !.out = Out("cancelled", 0, "", <<>>, 0), !.st = "cancelled"]

\* A run_command whose finally clause empties the table.
PopRequest_All(c, rid) == [pending EXCEPT ![c] = {}]

\* A run_command whose finally clause leaves its entry in the table.
PopRequest_Kept(c, rid) == pending

\* finally: self._pending_requests.pop(request_id, None)
PopRequest(c, rid) == [pending EXCEPT ![c] = @ \ {rid}]

\* drain returned in send_message: wait_for(future, 10.0) returns at once when
\* the future is done, and suspends otherwise.
RunCommandSent(i) ==
    /\ Idle
    /\ i \in DOMAIN htasks
    /\ htasks[i].st = "send"
    /\ IF htasks[i].fut.st = "pending"
       THEN /\ htasks' = [htasks EXCEPT ![i].st = "wait"]
            /\ pending' = Installed(htasks[i].conn, htasks[i].rid, "drained")
       ELSE /\ htasks' = [htasks EXCEPT ![i] = Finished(@)]
            /\ pending' = PopRequest(htasks[i].conn, htasks[i].rid)
    /\ written' = [written EXCEPT ![htasks[i].conn] =
            @ \o SendWrites(CommandRequest(htasks[i].rid, CommandParse(CommandOf(htasks[i].h))),
                            "drained")]
    /\ UNCHANGED <<srvVars, peerVars, clientPc, subTodo, cClosed, subscribed, msgTasks,
                   nextRid, connPc, servePc, protoState, hClosed, sockClosed, closer,
                   readerPc, writerPc, outgoing, queue>>

\* A run_command without the finally clause: a send that fails leaves the
\* entry in the table.
RunCommandSendFails_NoFinally(i) ==
    /\ Idle
    /\ i \in DOMAIN htasks
    /\ htasks[i].st = "send"
    /\ peerEof[htasks[i].conn] \/ sockClosed[htasks[i].conn]
    /\ htasks' = [htasks EXCEPT ![i] =
            [@ EXCEPT !.st = "failed",
                      !.out = Out("client_error", 0, "Failed to send message", <<>>, 0)]]
    /\ UNCHANGED <<srvVars, connVars, peerVars, cliVars, nextRid>>

\* drain raised in the send of the commandRequest (the connection was lost
\* under it): send_message raises ClientError, finally pops the entry.
RunCommandSendFails(i) ==
    /\ Idle
    /\ i \in DOMAIN htasks
    /\ htasks[i].st = "send"
    /\ peerEof[htasks[i].conn] \/ sockClosed[htasks[i].conn]
    /\ htasks' = [htasks EXCEPT ![i] =
            [@ EXCEPT !.st = "failed",
                      !.out = Out("client_error", 0, "Failed to send message", <<>>, 0)]]
    /\ pending' = PopRequest(htasks[i].conn, htasks[i].rid)
    /\ UNCHANGED <<srvVars, connVars, peerVars, clientPc, subTodo, cClosed, subscribed,
                   msgTasks, nextRid>>

\* The future is done (a reply was set, or Client.close cancelled it): the call
\* resumes and ends.
RunCommandResume(i) ==
    /\ Idle
    /\ i \in DOMAIN htasks
    /\ htasks[i].st = "wait"
    /\ htasks[i].fut.st \in {"set", "cancelled"}
    /\ htasks' = [htasks EXCEPT ![i] = Finished(@)]
    /\ pending' = PopRequest(htasks[i].conn, htasks[i].rid)
    /\ UNCHANGED <<srvVars, connVars, peerVars, clientPc, subTodo, cClosed, subscribed,
                   msgTasks, nextRid>>

\* The 10 seconds of wait_for pass with the future not done: wait_for cancels
\* it and run_command raises CommandError("Command timed out", -1, str(command)).
RunCommandTimeout(i) ==
    /\ Idle
    /\ i \in DOMAIN htasks
    /\ htasks[i].st = "wait"
    /\ htasks[i].fut.st = "pending"
    /\ htasks' = [htasks EXCEPT ![i] =
            [@ EXCEPT !.st = "failed", !.fut = Fut("cancelled", NoMsg),
                      !.out = Out("timeout", CommandErrorCode, "Command timed out",
                                  CommandStr(CommandParse(CommandOf(htasks[i].h))), 0)]]
    /\ pending' = PopRequest(htasks[i].conn, htasks[i].rid)
    /\ UNCHANGED <<srvVars, connVars, peerVars, clientPc, subTodo, cClosed, subscribed,
                   msgTasks, nextRid>>

\* A handler task that task.cancel() reached while it was suspended in
\* run_command runs again: CancelledError, finally pops the entry.
HandlerCancelled(i) ==
    /\ Idle
    /\ i \in DOMAIN htasks
    /\ htasks[i].st = "cancelling"
    /\ htasks' = [htasks EXCEPT ![i] =
            [@ EXCEPT !.st = "cancelled", !.out = Out("cancelled", 0, "", <<>>, 0)]]
    /\ pending' = PopRequest(htasks[i].conn, htasks[i].rid)
    /\ UNCHANGED <<srvVars, connVars, peerVars, clientPc, subTodo, cClosed, subscribed,
                   msgTasks, nextRid>>

\* ------------------------------------------- Server.run and _shutdown
\* signal_handler: "if not self._running: return"; otherwise _running is
\* cleared and a _shutdown task is created.
Signal ==
    /\ Idle
    /\ mainPc = "serving"
    /\ running
    /\ running' = FALSE
    /\ sd' = [sd EXCEPT !["S1"] = [pc |-> "start", todo |-> <<>>]]
    /\ UNCHANGED <<reg, listening, mainPc, clients, connVars, peerVars, cliVars, taskVars>>

\* server_main wakes from asyncio.sleep(0.1) with _running cleared; finally:
\* self._ws_server.close() and wait_closed() is awaited.
MainWake ==
    /\ Idle
    /\ mainPc = "serving"
    /\ ~running
    /\ listening' = FALSE
    /\ mainPc' = "stopping"
    /\ UNCHANGED <<reg, running, clients, sd, connVars, peerVars, cliVars, taskVars>>

\* list(self._clients), in the order the set yields them
RECURSIVE Orders(_)
Orders(S) ==
    IF S = {} THEN {<<>>}
    ELSE UNION {{<<x>> \o o : o \in Orders(S \ {x})} : x \in S}

\* wait_closed() returned: server_main awaits self._shutdown(), which clears
\* _running and begins the loop over list(self._clients).
MainShutdown ==
    /\ Idle
    /\ mainPc = "stopping"
    /\ mainPc' = "shutdown"
    /\ running' = FALSE
    /\ \E o \in Orders(clients) : sd' = [sd EXCEPT !["S2"] = [pc |-> "iter", todo |-> o]]
    /\ UNCHANGED <<reg, listening, clients, connVars, peerVars, cliVars, taskVars>>

\* The _shutdown task the signal handler created starts.
ShutdownStart ==
    /\ Idle
    /\ sd["S1"].pc = "start"
    /\ running' = FALSE
    /\ \E o \in Orders(clients) : sd' = [sd EXCEPT !["S1"] = [pc |-> "iter", todo |-> o]]
    /\ UNCHANGED <<reg, listening, mainPc, clients, connVars, peerVars, cliVars, taskVars>>

\* "for client in list(self._clients): await self._cleanup_client(client)"
ShutdownIter(k) ==
    /\ sd[k].pc = "iter"
    /\ IF sd[k].todo = <<>>
       THEN /\ sd' = [sd EXCEPT ![k].pc = "cancel"]
            /\ UNCHANGED <<clients, cClosed, hClosed, sockClosed, written, closer,
                           pending, htasks>>
       ELSE LET c == Head(sd[k].todo) IN
            /\ CleanupBegin(c, k)
            /\ sd' = [sd EXCEPT ![k] =
                         IF CleanupSuspends(c)
                         THEN [@ EXCEPT !.pc = "closing"]
                         ELSE [@ EXCEPT !.todo = Tail(@)]]
    /\ UNCHANGED <<reg, running, listening, mainPc, peerVars, connPc, servePc,
                   protoState, readerPc, writerPc, outgoing, queue, clientPc, subTodo,
                   subscribed, msgTasks, nextRid>>

\* wait_closed() returned in the close() that _shutdown called through
\* _cleanup_client.
ShutdownCloseDone(k) ==
    /\ Idle
    /\ sd[k].pc = "closing"
    /\ closer[Head(sd[k].todo)] = k
    /\ CleanupFinish(Head(sd[k].todo))
    /\ sd' = [sd EXCEPT ![k] = [pc |-> "iter", todo |-> Tail(@.todo)]]
    /\ UNCHANGED <<reg, running, listening, mainPc, peerVars, connPc, servePc,
                   protoState, hClosed, sockClosed, written, readerPc, writerPc, outgoing,
                   queue, clientPc, subTodo, cClosed, subscribed, msgTasks, nextRid>>

\* task.cancel() on a task of self._tasks: one that has not started never runs;
\* one suspended in run_command gets CancelledError when it runs next, and the
\* future it awaits is cancelled with it.
Cancel(t) ==
    IF t.st = "ready"
    THEN [t EXCEPT !.st = "cancelled"]
    ELSE IF t.st = "send"
    THEN [t EXCEPT !.st = "cancelling"]
    ELSE IF t.st = "wait"
    THEN [t EXCEPT !.st = "cancelling",
                   !.fut = IF @.st = "pending" THEN Fut("cancelled", NoMsg) ELSE @]
    ELSE t

\* "for task in self._tasks: task.cancel()", then gather when there are tasks.
ShutdownCancel(k) ==
    /\ sd[k].pc = "cancel"
    /\ htasks' = [i \in DOMAIN htasks |-> Cancel(htasks[i])]
    /\ msgTasks' = [c \in Conns |-> <<>>]
    /\ sd' = [sd EXCEPT ![k].pc = "gather"]
    /\ UNCHANGED <<reg, running, listening, mainPc, clients, connVars, peerVars,
                   clientPc, subTodo, cClosed, subscribed, pending, nextRid>>

\* gather(*self._tasks, return_exceptions=True) returned: no cancelled task is
\* still to run.
ShutdownGatherDone(k) ==
    /\ Idle
    /\ sd[k].pc = "gather"
    /\ \A i \in DOMAIN htasks : htasks[i].st # "cancelling"
    /\ sd' = [sd EXCEPT ![k].pc = "done"]
    /\ UNCHANGED <<reg, running, listening, mainPc, clients, connVars, peerVars, cliVars,
                   taskVars>>

\* --------------------------------------------------------- specification
\* What the peer sends in the main specification: PlayerMessage events, replies
\* with any requestId and status, an error message for the first command, and a
\* CLOSE frame.
MainFrames ==
    {InFrame("TEXT", EventMsg("PlayerMessage", 0))}
        \cup {InFrame("TEXT", CommandResponseMsg(r, s)) : r \in PeerRids, s \in StatusCodes}
        \cup {InFrame("TEXT", ErrorMsg(1)), InFrame("CLOSE", NoMsg)}

\* The steps of the tasks of one connection.
ConnNext(c) ==
    \/ Accept(c)
    \/ ConnHandshake(c)
    \/ ConnHandshakeDone(c)
    \/ ConnWaitDone(c)
    \/ ConnCloseDone(c)
    \/ ReaderStep(c)
    \/ ReaderCloseDone(c)
    \/ WriterTick(c)
    \/ ServeDone(c)
    \/ ClientStart(c)
    \/ ClientSubLoop(c)
    \/ ClientSubDrainDone(c)
    \/ ClientRecvCheck(c)
    \/ ClientRecvWake(c)
    \/ ClientCleanup(c)
    \/ RunHandleMessage(c)

\* The steps of one handler task.
TaskNext(i) ==
    \/ HandlerReturn(i)
    \/ RunCommandStart(i)
    \/ RunCommandSent(i)
    \/ RunCommandResume(i)
    \/ RunCommandTimeout(i)

ShutdownNext ==
    \/ Signal
    \/ MainWake
    \/ MainShutdown
    \/ ShutdownStart
    \/ \E k \in ShutdownTasks :
        \/ ShutdownIter(k)
        \/ ShutdownCloseDone(k)
        \/ ShutdownCancel(k)
        \/ ShutdownGatherDone(k)
    \/ \E i \in 1..MaxHandlerTasks : HandlerCancelled(i)

\* The main specification: one connection, a peer that sends a valid or an
\* invalid upgrade request, the frames of MainFrames, and closes when it likes;
\* no signal arrives.
Next ==
    \/ \E c \in MainConns : ConnNext(c)
    \/ \E c \in MainConns : PeerHandshake(c, "valid")
    \/ \E c \in MainConns : PeerHandshake(c, "invalid")
    \/ \E c \in MainConns : PeerEof(c)
    \/ \E c \in MainConns : \E f \in MainFrames : PeerSend(c, f)
    \/ \E i \in 1..MaxHandlerTasks : TaskNext(i)
    \/ \E i \in 1..MaxHandlerTasks : HandlerRaise(i)

Spec == Init /\ [][Next]_vars

\* The bad-message specification: the peer sends text that is not JSON, JSON
\* without a header, a header without a purpose, an unknown purpose, events with
\* an unknown eventName (with the requestId of no call or of the first call),
\* PlayerMessage events, and closes when it likes.
BadFrames ==
    {InFrame("TEXT", m) :
        m \in {NotJsonMsg, NoHeaderMsg, NoPurposeMsg(1), UnknownPurposeMsg(1)}
              \cup {EventMsg("Bogus", r) : r \in 0..1}
              \cup {EventMsg("PlayerMessage", 0)}}

NextBad ==
    \/ \E c \in MainConns : ConnNext(c)
    \/ \E c \in MainConns : PeerHandshake(c, "valid")
    \/ \E c \in MainConns : PeerEof(c)
    \/ \E c \in MainConns : \E f \in BadFrames : PeerSend(c, f)
    \/ \E i \in 1..MaxHandlerTasks : TaskNext(i)

SpecBad == Init /\ [][NextBad]_vars

\* The subscription specification: the handlers of PlayerMessage call
\* ctx.subscribe or ctx.unsubscribe with any event name, or return, while the
\* peer sends PlayerMessage events and closes when it likes.
SubFrames == {InFrame("TEXT", EventMsg("PlayerMessage", 0))}

NextSub ==
    \/ \E c \in MainConns : ConnNext(c)
    \/ \E c \in MainConns : PeerHandshake(c, "valid")
    \/ \E c \in MainConns : PeerEof(c)
    \/ \E c \in MainConns : \E f \in SubFrames : PeerSend(c, f)
    \/ \E i \in 1..MaxHandlerTasks : HandlerReturn(i)
    \/ \E i \in 1..MaxHandlerTasks : \E ev \in EventTypes :
            HandlerSubCall(i, "subscribe", ev)
    \/ \E i \in 1..MaxHandlerTasks : \E ev \in EventTypes :
            HandlerSubCall(i, "unsubscribe", ev)
    \/ \E i \in 1..MaxHandlerTasks : HandlerSubSent(i)
    \/ \E i \in 1..MaxHandlerTasks : HandlerSubSendFails(i)

SpecSub == Init /\ [][NextSub]_vars

\* The peer sends one message as two fragments, each in a segment of its own:
\* a TEXT frame with fin=false and a CONTINUATION frame with fin=true.
PeerSendFragments(c, m) ==
    /\ Idle
    /\ \E i \in DOMAIN written[c] : written[c][i].op = "HTTP"
    /\ ~peerEof[c]
    /\ ~sockClosed[c]
    /\ nSent[c] + 1 < MaxInbound
    /\ Len(inbox[c]) + Len(queue[c]) + Len(msgTasks[c]) < MaxInFlight
    /\ inbox' = [inbox EXCEPT ![c] =
                    @ \o << <<Frame(FALSE, "TEXT", m, <<>>)>>,
                            <<Frame(TRUE, "CONTINUATION", m, <<>>)>> >>]
    /\ nSent' = [nSent EXCEPT ![c] = @ + 2]
    /\ UNCHANGED <<srvVars, connVars, cliVars, taskVars, hsReq, peerEof, nDispatch>>

\* The peer sends two whole text frames that one socket read returns together.
PeerSendBatch(c, m1, m2) ==
    /\ Idle
    /\ \E i \in DOMAIN written[c] : written[c][i].op = "HTTP"
    /\ ~peerEof[c]
    /\ ~sockClosed[c]
    /\ nSent[c] + 1 < MaxInbound
    /\ Len(inbox[c]) + Len(queue[c]) + Len(msgTasks[c]) < MaxInFlight
    /\ nDispatch + DispatchCount(InFrame("TEXT", m1)) <= MaxHandlerTasks
    /\ inbox' = [inbox EXCEPT ![c] = Append(@, <<InFrame("TEXT", m1), InFrame("TEXT", m2)>>)]
    /\ nSent' = [nSent EXCEPT ![c] = @ + 2]
    /\ nDispatch' = nDispatch + DispatchCount(InFrame("TEXT", m1))
    /\ UNCHANGED <<srvVars, connVars, cliVars, taskVars, hsReq, peerEof>>

\* The transport specification: the peer sends whole and fragmented
\* PlayerMessage events, PING frames with an empty and a one-byte payload,
\* CLOSE frames without a status and with status 1001, and closes when it
\* likes; handlers return at once.
PingPayloads == {<<>>, <<7>>}
TransportFrames ==
    {InFrame("TEXT", EventMsg("PlayerMessage", 0)), InFrame("CLOSE", NoMsg),
     Frame(TRUE, "CLOSE", NoMsg, CloseFrame(CloseCode_GOING_AWAY).payload)}
        \cup {Frame(TRUE, "PING", NoMsg, p) : p \in PingPayloads}

NextTransport ==
    \/ \E c \in MainConns : ConnNext(c)
    \/ \E c \in MainConns : PeerHandshake(c, "valid")
    \/ \E c \in MainConns : PeerEof(c)
    \/ \E c \in MainConns : \E f \in TransportFrames : PeerSend(c, f)
    \/ \E c \in MainConns : PeerSendFragments(c, EventMsg("PlayerMessage", 0))
    \/ \E c \in MainConns :
            PeerSendBatch(c, EventMsg("PlayerMessage", 0), EventMsg("BlockPlaced", 0))
    \/ \E i \in 1..MaxHandlerTasks : HandlerReturn(i)

SpecTransport == Init /\ [][NextTransport]_vars

\* The event loop runs every task that is ready: each step of the connection's
\* tasks and of the handler tasks is taken if it stays enabled.  Nothing is
\* assumed of the peer.
TaskFairness ==
    /\ \A c \in MainConns :
          /\ WF_vars(ConnHandshake(c)) /\ WF_vars(ConnHandshakeDone(c))
          /\ WF_vars(ConnWaitDone(c)) /\ WF_vars(ConnCloseDone(c))
          /\ WF_vars(ReaderStep(c)) /\ WF_vars(ReaderCloseDone(c))
          /\ WF_vars(WriterTick(c)) /\ WF_vars(ServeDone(c))
          /\ WF_vars(ClientStart(c)) /\ WF_vars(ClientSubLoop(c))
          /\ WF_vars(ClientSubDrainDone(c)) /\ WF_vars(ClientRecvCheck(c))
          /\ WF_vars(ClientRecvWake(c)) /\ WF_vars(ClientCleanup(c))
          /\ WF_vars(RunHandleMessage(c))
    /\ \A i \in 1..MaxHandlerTasks : WF_vars(HandlerReturn(i))

\* The transport specification under that scheduling.
SpecTransportFair == SpecTransport /\ TaskFairness

\* The ordering specification: the peer sends a BlockPlaced event and then a
\* PlayerMessage event, as fast as it likes (the second may arrive while the
\* first is still in the socket buffer, in the message queue or waiting as a
\* _handle_message task), and closes when it likes; handlers return at once.
OrderFrames ==
    <<InFrame("TEXT", EventMsg("BlockPlaced", 0)),
      InFrame("TEXT", EventMsg("PlayerMessage", 0))>>

PeerSendNext(c) ==
    /\ Idle
    /\ \E i \in DOMAIN written[c] : written[c][i].op = "HTTP"
    /\ ~peerEof[c]
    /\ ~sockClosed[c]
    /\ nSent[c] < Len(OrderFrames)
    /\ LET f == OrderFrames[nSent[c] + 1] IN
       /\ nDispatch + DispatchCount(f) <= MaxHandlerTasks
       /\ inbox' = [inbox EXCEPT ![c] = Append(@, <<f>>)]
       /\ nDispatch' = nDispatch + DispatchCount(f)
    /\ nSent' = [nSent EXCEPT ![c] = @ + 1]
    /\ UNCHANGED <<srvVars, connVars, cliVars, taskVars, hsReq, peerEof>>

NextOrder ==
    \/ \E c \in MainConns : ConnNext(c)
    \/ \E c \in MainConns : PeerHandshake(c, "valid")
    \/ \E c \in MainConns : PeerEof(c)
    \/ \E c \in MainConns : PeerSendNext(c)
    \/ \E i \in 1..MaxHandlerTasks : HandlerReturn(i)

SpecOrder == Init /\ [][NextOrder]_vars

\* The send specification: the handlers of PlayerMessage run their command,
\* subscribe or unsubscribe, all on one session, while the peer sends
\* PlayerMessage events, replies to the first command, and closes when it likes.
SendFrames == SubFrames \cup {InFrame("TEXT", CommandResponseMsg(1, StatusOk))}

NextSend ==
    \/ \E c \in MainConns : ConnNext(c)
    \/ \E c \in MainConns : PeerHandshake(c, "valid")
    \/ \E c \in MainConns : PeerEof(c)
    \/ \E c \in MainConns : \E f \in SendFrames : PeerSend(c, f)
    \/ \E i \in 1..MaxHandlerTasks : TaskNext(i)
    \/ \E i \in 1..MaxHandlerTasks : \E ev \in EventTypes :
            HandlerSubCall(i, "subscribe", ev)
    \/ \E i \in 1..MaxHandlerTasks : \E ev \in EventTypes :
            HandlerSubCall(i, "unsubscribe", ev)
    \/ \E i \in 1..MaxHandlerTasks : HandlerSubSent(i)
    \/ \E i \in 1..MaxHandlerTasks : HandlerSubSendFails(i)

SpecSend == Init /\ [][NextSend]_vars

\* The shutdown specification: SIGINT or SIGTERM arrives at any moment while the
\* peer sends PlayerMessage events, replies to the first command once the
\* request for it was written, and closes when it likes.
ShutdownFrames ==
    {InFrame("TEXT", EventMsg("PlayerMessage", 0)),
     InFrame("TEXT", CommandResponseMsg(1, StatusOk))}

NextShutdown ==
    \/ \E c \in MainConns : ConnNext(c)
    \/ \E c \in MainConns : PeerHandshake(c, "valid")
    \/ \E c \in MainConns : PeerEof(c)
    \/ \E c \in MainConns : \E f \in ShutdownFrames :
          /\ nSent[c] < MaxShutdownInbound
          /\ f.msg.purpose = "commandResponse" =>
                \E n \in DOMAIN written[c] :
                    /\ written[c][n].purpose = "commandRequest"
                    /\ written[c][n].rid = f.msg.rid
          /\ PeerSend(c, f)
    \/ \E i \in 1..MaxHandlerTasks : TaskNext(i)
    \/ \E i \in 1..MaxHandlerTasks : RunCommandSendFails(i)
    \/ ShutdownNext

SpecShutdown == Init /\ [][NextShutdown]_vars

\* The registration specification: the application registers its handlers
\* through Server.on, each handler at most once under each event name, with
\* either value of auto_subscribe; then Server.run serves and a peer connects,
\* completes the handshake and stays.
InitAuto == InitWith(EmptyReg, "setup")

\* @app.on(ev, auto_subscribe=auto) applied to handler h, before Server.run.
OnRegister(ev, h, auto) ==
    /\ mainPc = "setup"
    /\ reg.flags[ev][h] = "none"
    /\ reg' = Register(reg, ev, h, auto)
    /\ UNCHANGED <<running, listening, mainPc, clients, sd, connVars, peerVars, cliVars,
                   taskVars>>

\* Server.run: server_main sets _running and serve() starts listening.
ServerRun ==
    /\ mainPc = "setup"
    /\ running' = TRUE
    /\ listening' = TRUE
    /\ mainPc' = "serving"
    /\ UNCHANGED <<reg, clients, sd, connVars, peerVars, cliVars, taskVars>>

NextAuto ==
    \/ \E ev \in EventTypes, h \in Handlers, auto \in BOOLEAN : OnRegister(ev, h, auto)
    \/ ServerRun
    \/ \E c \in MainConns : Accept(c)
    \/ \E c \in MainConns : PeerHandshake(c, "valid")
    \/ \E c \in MainConns : ConnHandshake(c)
    \/ \E c \in MainConns : ConnHandshakeDone(c)
    \/ \E c \in MainConns : ClientStart(c)
    \/ \E c \in MainConns : ClientSubLoop(c)
    \/ \E c \in MainConns : ClientSubDrainDone(c)
    \/ \E c \in MainConns : ClientRecvCheck(c)

SpecAuto == InitAuto /\ [][NextAuto]_vars

\* =============================================================== properties
\* The session's run_command calls: the handler tasks that installed a waiter.
Calls(c) == {i \in DOMAIN htasks : htasks[i].conn = c /\ htasks[i].rid # 0}

\* The oldest _handle_message task of connection c runs in this step.
HandlesMessage(c) ==
    /\ msgTasks[c] # <<>>
    /\ msgTasks'[c] = Tail(msgTasks[c])

\* Nothing of the session but the list of message tasks changes in this step.
SessionUnchanged(c) ==
    /\ htasks' = htasks
    /\ pending'[c] = pending[c]
    /\ subscribed'[c] = subscribed[c]
    /\ cClosed'[c] = cClosed[c]
    /\ hClosed'[c] = hClosed[c]
    /\ written'[c] = written[c]
    /\ clientPc'[c] = clientPc[c]
    /\ clients' = clients

\* C1 (correlation): a message resolves a waiter only if the waiter was
\* installed for the message's requestId and that requestId is in the table;
\* the reply a call ends on carries the call's own requestId; and a
\* commandResponse whose requestId is not in the table changes no waiter and
\* nothing else of the session.
C1_Correlation ==
    [][\A c \in Conns :
        /\ \A i \in DOMAIN htasks :
              htasks'[i].fut # htasks[i].fut /\ htasks'[i].fut.st = "set"
              => /\ HandlesMessage(c) \/ htasks[i].conn # c
                 /\ htasks[i].conn = c =>
                      /\ htasks'[i].fut.val = Head(msgTasks[c])
                      /\ htasks'[i].fut.val.rid = htasks[i].rid
                      /\ htasks[i].rid \in pending[c]
        /\ \A i \in DOMAIN htasks' :
              htasks'[i].out.kind \in {"ok", "command_error"}
              => htasks'[i].out.rid = htasks'[i].rid
        /\ ( /\ HandlesMessage(c)
             /\ Head(msgTasks[c]).purpose = "commandResponse"
             /\ Head(msgTasks[c]).rid \notin pending[c] )
           => SessionUnchanged(c)
      ]_vars

\* Two calls are in flight on one session and the reply to the later one came
\* first: the later call ended on its own reply while the earlier still waits;
\* of the three frames the peer sent, one reply matched no waiter.
C1_Witness ==
    \E c \in Conns : \E i, j \in Calls(c) :
        /\ htasks[i].rid > htasks[j].rid
        /\ htasks[i].out.kind = "ok"
        /\ htasks[i].out.rid = htasks[i].rid
        /\ htasks[j].st = "wait"
        /\ htasks[j].fut.st = "pending"
        /\ nSent[c] = MaxInbound
        /\ inbox[c] = <<>> /\ queue[c] = <<>> /\ msgTasks[c] = <<>>

\* C2 (command timeout): the call whose timeout fires fails with the timeout
\* error and its entry leaves the table; from then on nothing changes that call,
\* its requestId never is in the table again, and handling a reply that carries
\* its requestId changes nothing of the session.
C2_Timeout ==
    [][\A c \in Conns : \A i \in Calls(c) :
        /\ ( htasks[i].st = "wait" /\ htasks[i].fut.st = "pending"
             /\ htasks'[i].out.kind = "timeout" )
           => /\ htasks'[i].st = "failed"
              /\ htasks'[i].out.code = CommandErrorCode
              /\ htasks'[i].out.msg = "Command timed out"
              /\ htasks'[i].rid \notin pending'[c]
        /\ htasks[i].out.kind = "timeout"
           => /\ htasks'[i] = htasks[i]
              /\ htasks[i].rid \notin pending'[c]
              /\ ( HandlesMessage(c) /\ Head(msgTasks[c]).rid = htasks[i].rid )
                 => SessionUnchanged(c)
      ]_vars

\* A call has timed out and a reply carrying its requestId has arrived since:
\* it is the message the session handles next.
C2_Witness ==
    \E c \in Conns : \E i \in Calls(c) :
        /\ htasks[i].out.kind = "timeout"
        /\ msgTasks[c] # <<>>
        /\ Head(msgTasks[c]).purpose = "commandResponse"
        /\ Head(msgTasks[c]).rid = htasks[i].rid

\* C3 (command failure): a call that ends on a commandResponse with a non-zero
\* statusCode fails with a command error that carries that statusCode, that
\* statusMessage and the command line the call sent.
C3_CommandFailure ==
    \A i \in DOMAIN htasks :
        ( /\ htasks[i].fut.st = "set"
          /\ htasks[i].fut.val.purpose = "commandResponse"
          /\ htasks[i].fut.val.statusCode # StatusOk
          /\ htasks[i].st \in {"done", "failed"} )
        => /\ htasks[i].out.kind = "command_error"
           /\ htasks[i].out.code = htasks[i].fut.val.statusCode
           /\ htasks[i].out.msg = htasks[i].fut.val.statusMessage
           /\ \E n \in DOMAIN written[htasks[i].conn] :
                 /\ written[htasks[i].conn][n].purpose = "commandRequest"
                 /\ written[htasks[i].conn][n].rid = htasks[i].rid
                 /\ htasks[i].out.command = written[htasks[i].conn][n].text

\* Client.close has run to its end on the session: _closed is set and no
\* _cleanup_client call is suspended inside it.
ClientCloseReturned(c) == cClosed[c] /\ closer[c] \notin ShutdownTasks \cup {"client"}

\* C4 (close releases the waiting calls): once Client.close has run to its end,
\* whether the peer's disconnection or the server's shutdown called it, no
\* run_command call of the session is suspended on a future that is not done,
\* and the pending-request table is empty.
C4_CloseReleasesCalls ==
    \A c \in Conns :
        ClientCloseReturned(c)
        => /\ pending[c] = {}
           /\ \A i \in Calls(c) :
                 htasks[i].st \in {"send", "wait"} => htasks[i].fut.st # "pending"

\* Client.close has run to its end while a call was waiting for its reply: the
\* call's future was cancelled under it and the call has not run since.
C4_Witness ==
    \E c \in Conns : \E i \in Calls(c) :
        /\ ClientCloseReturned(c)
        /\ htasks[i].st = "wait"
        /\ htasks[i].fut.st = "cancelled"
        /\ \E k \in ShutdownTasks : sd[k].pc # "none"

\* C5 (no leaks): whenever Client.close has run to its end on a session, the
\* session's pending-request table is empty, its subscription set is empty, and
\* every handler task dispatched for it is completed or cancelled.
C5_NoLeaks ==
    \A c \in Conns :
        ClientCloseReturned(c)
        => /\ pending[c] = {}
           /\ subscribed[c] = {}
           /\ \A i \in DOMAIN htasks :
                 htasks[i].conn = c => htasks[i].st \in {"done", "failed", "cancelled"}

\* The subscribe messages written on a connection for an event name.
SubscribesSent(c, ev) ==
    {i \in DOMAIN written[c] :
        written[c][i].op = "TEXT" /\ written[c][i].purpose = "subscribe"
        /\ written[c][i].text = <<ev>>}

\* The session is open and _handle_client has finished its subscribe loop.
SessionReady(c) == protoState[c] = "OPEN" /\ clientPc[c] = "recv"

\* C6 (auto-subscribe): once a session is open and ready, exactly one subscribe
\* message was sent for each event name under which a handler is registered
\* with auto_subscribe=true, and none for every other event name.
C6_AutoSubscribe ==
    \A c \in Conns :
        SessionReady(c)
        => \A ev \in EventTypes :
             Cardinality(SubscribesSent(c, ev)) =
                 IF \E h \in Handlers : reg.flags[ev][h] = "true" THEN 1 ELSE 0

\* C7 (handshake before dispatch): a WebSocket frame is on the socket only
\* after the 101 response, and only when the connection state is OPEN.
C7_HandshakeBeforeFrames ==
    \A c \in Conns : \A i \in DOMAIN written[c] :
        written[c][i].op \in {"TEXT", "CLOSE"}
        => /\ \E j \in 1..(i - 1) : written[c][j] = HttpResponse(HttpSwitchingProtocols)
           /\ protoState[c] = "OPEN"

\* The close frames written on a connection.
CloseFramesSent(c) == {i \in DOMAIN written[c] : written[c][i].op = "CLOSE"}

\* C8 (close is idempotent): however many tasks call close on a connection, at
\* most one close frame is written.
C8_CloseOnce ==
    \A c \in Conns : Cardinality(CloseFramesSent(c)) <= 1

\* The reader loop, handle_connection, serve.handle_connection, Client.close of
\* the session task and both _shutdown coroutines have all called close on the
\* connection, and one close frame is on the socket.
C8_Witness ==
    \E c \in Conns :
        /\ readerPc[c] = "done"
        /\ connPc[c] = "done"
        /\ servePc[c] = "done"
        /\ clientPc[c] = "done"
        /\ \A k \in ShutdownTasks : sd[k].pc = "done"
        /\ Cardinality(CloseFramesSent(c)) = 1

\* C9 (close handshake completeness): once close was called on a connection
\* no task writes a frame; the close frame is the last frame on the socket; and
\* the commandRequest frames before it are in the order of their calls.
C9_CloseIsLast ==
    [][\A c \in Conns :
        /\ hClosed[c] =>
              \A i \in DOMAIN written'[c] :
                  i > Len(written[c]) => written'[c][i].op \notin {"TEXT", "CLOSE"}
        /\ \A i, j \in DOMAIN written'[c] :
              /\ i < j /\ written'[c][i].op = "CLOSE"
                 => written'[c][j].op \notin {"TEXT", "CLOSE"}
              /\ ( i < j /\ written'[c][i].purpose = "commandRequest"
                   /\ written'[c][j].purpose = "commandRequest" )
                 => written'[c][i].rid < written'[c][j].rid
      ]_vars

\* A handler sent a commandRequest, close was called, and a second handler's
\* run_command was refused: the close frame is the last thing on the socket.
C9_Witness ==
    \E c \in Conns : \E i, j \in Calls(c) :
        /\ htasks[i].out.kind = "client_error"
        /\ htasks[j].rid < htasks[i].rid
        /\ \E n \in DOMAIN written[c] : written[c][n].rid = htasks[j].rid
        /\ written[c][Len(written[c])].op = "CLOSE"

\* C10 (shutdown close code): the close frame that the server's shutdown
\* sends to a session carries status code 1001 (GOING_AWAY).
C10_ShutdownCloseCode ==
    \A c \in Conns :
        closer[c] \in ShutdownTasks
        => \A i \in CloseFramesSent(c) : CloseStatus(written[c][i]) = CloseCode_GOING_AWAY

\* The handler tasks that this step creates for handler h on connection c.
TasksCreated(c, h) ==
    {i \in DOMAIN htasks' \ DOMAIN htasks :
        htasks'[i].conn = c /\ htasks'[i].h = h /\ htasks'[i].st = "ready"}

TakesInvalid(c) ==
    /\ queue[c] # <<>>
    /\ queue'[c] = Tail(queue[c])
    /\ ~ValidMessage(Head(queue[c]))

\* The oldest _handle_message task runs on an event with an unknown eventName.
HandlesUnknownEvent(c) ==
    /\ HandlesMessage(c)
    /\ Head(msgTasks[c]).purpose = "event"
    /\ Head(msgTasks[c]).eventName \notin EventTypes

\* The step creates no handler task, completes no waiter, and leaves the session
\* as open as it was, its receive loop included.
Ignored(c) ==
    /\ htasks' = htasks
    /\ pending'[c] = pending[c]
    /\ cClosed'[c] = cClosed[c]
    /\ hClosed'[c] = hClosed[c]
    /\ clients' = clients
    /\ clientPc[c] \in {"recv", "recv_check"} => clientPc'[c] \in {"recv", "recv_check"}

\* C12 (bad inbound messages): a received message that is not JSON, has no
\* header object, no messagePurpose or an unknown purpose, or is an event with
\* an unknown eventName, is ignored: the step that consumes it starts no
\* handler, completes no waiter, and leaves the session open and receiving.
C12_BadMessagesIgnored ==
    [][\A c \in Conns :
        /\ TakesInvalid(c) => Ignored(c) /\ msgTasks'[c] = msgTasks[c]
        /\ HandlesUnknownEvent(c) => Ignored(c)
      ]_vars

\* Handler task i makes its subscribe or unsubscribe call in this step.
SubCalls(i, call) ==
    /\ i \in DOMAIN htasks
    /\ htasks[i].st = "ready"
    /\ htasks'[i].call = call

\* C13 (subscription no-ops): subscribe(name) with name already in the
\* session's subscription set, and unsubscribe(name) with name not in it, send
\* no message, raise no error and leave the subscription set unchanged, whether
\* the session is open or closed.
C13_SubscriptionNoOps ==
    [][\A i \in 1..MaxHandlerTasks :
        ( \/ SubCalls(i, "subscribe") /\ htasks'[i].ev \in subscribed[htasks[i].conn]
          \/ SubCalls(i, "unsubscribe") /\ htasks'[i].ev \notin subscribed[htasks[i].conn] )
        => LET c == htasks[i].conn IN
           /\ written'[c] = written[c]
           /\ outgoing'[c] = outgoing[c]
           /\ subscribed'[c] = subscribed[c]
           /\ htasks'[i].st = "done"
           /\ htasks'[i].out = NoOut
      ]_vars

\* Both no-ops happened: one handler's subscribe of a subscribed name and
\* another's unsubscribe of a name that is not subscribed returned, and all the
\* session ever wrote is the 101 response and its one automatic subscribe.
C13_Witness ==
    \E c \in Conns : \E i, j \in DOMAIN htasks :
        /\ htasks[i].conn = c /\ htasks[j].conn = c
        /\ htasks[i].call = "subscribe" /\ htasks[i].st = "done"
        /\ htasks[i].ev \in subscribed[c]
        /\ htasks[j].call = "unsubscribe" /\ htasks[j].st = "done"
        /\ htasks[j].ev \notin subscribed[c]
        /\ Len(written[c]) = 2

\* The subscribe or unsubscribe message for ev was written on connection c.
SubMessageSent(c, call, ev) ==
    \E k \in DOMAIN written[c] : written[c][k] = TextFrame(call, 0, <<ev>>)

\* C14 (subscription error): the subscription set changes only in the step in
\* which the send of a subscribe or unsubscribe message returns, and then by
\* exactly that name; a call whose send fails, at once because the session is
\* closed or later in the transport, ends in a subscription error in a step
\* that leaves the set as it was and, in the first case, writes nothing.
C14_SubscriptionError ==
    [][\A c \in Conns :
        /\ subscribed'[c] # subscribed[c]
           => \/ /\ clientPc[c] = "sub_drain"
                 /\ SubMessageSent(c, "subscribe", Head(subTodo[c]))
                 /\ subscribed'[c] = subscribed[c] \cup {Head(subTodo[c])}
              \/ \E i \in DOMAIN htasks :
                    /\ htasks[i].conn = c
                    /\ htasks[i].st = "sub_send" /\ htasks'[i].st = "done"
                    /\ SubMessageSent(c, htasks[i].call, htasks[i].ev)
                    /\ subscribed'[c] =
                           IF htasks[i].call = "subscribe"
                           THEN subscribed[c] \cup {htasks[i].ev}
                           ELSE subscribed[c] \ {htasks[i].ev}
        /\ \A i \in DOMAIN htasks :
              htasks[i].conn = c
              => /\ ( /\ SendMessageRaises(c)
                      /\ \/ SubCalls(i, "subscribe")
                            /\ htasks'[i].ev \notin subscribed[c]
                         \/ SubCalls(i, "unsubscribe")
                            /\ htasks'[i].ev \in subscribed[c] )
                    => /\ htasks'[i].st = "failed"
                       /\ htasks'[i].out.kind = "subscription_error"
                       /\ written'[c] = written[c]
                       /\ subscribed'[c] = subscribed[c]
                 /\ ( /\ htasks[i].out.kind # "subscription_error"
                      /\ htasks'[i].out.kind = "subscription_error" )
                    => /\ htasks'[i].st = "failed"
                       /\ subscribed'[c] = subscribed[c]
      ]_vars

\* On a closed session a handler's subscribe of a new name failed with a
\* subscription error and the name is not in the set, while another handler's
\* unsubscribe was sent and took its name out.
C14_Witness ==
    \E c \in Conns : \E i, j \in DOMAIN htasks :
        /\ htasks[i].conn = c /\ htasks[j].conn = c
        /\ hClosed[c]
        /\ htasks[i].call = "subscribe"
        /\ htasks[i].out.kind = "subscription_error"
        /\ ~SubMessageSent(c, "subscribe", htasks[i].ev)
        /\ htasks[i].ev \notin subscribed[c]
        /\ htasks[j].call = "unsubscribe" /\ htasks[j].st = "done"
        /\ SubMessageSent(c, "unsubscribe", htasks[j].ev)
        /\ htasks[j].ev \notin subscribed[c]

\* The reader loop of connection c, not closed, takes a frame off the socket.
ReaderTakes(c) ==
    /\ readerPc[c] = "read"
    /\ ~hClosed[c]
    /\ inbox[c] # <<>>
    /\ inbox'[c] = Tail(inbox[c])

\* C15 (fragment reassembly): a TEXT frame with fin=false delivers nothing to
\* the session, and the CONTINUATION frame with fin=true that ends the
\* sequence delivers exactly one message, the concatenation of the fragments.
C15_FragmentReassembly ==
    [][\A c \in Conns :
        ReaderTakes(c)
        => LET f == ParseFrame(Head(inbox[c])) IN
           /\ (f.op = "TEXT" /\ ~f.fin) => queue'[c] = queue[c]
           /\ (f.op = "CONTINUATION" /\ f.fin) => queue'[c] = Append(queue[c], f.msg)
      ]_vars

\* The PONG frame that answers a PING with payload p.
PongFrame(p) ==
    [op |-> "PONG", purpose |-> "", rid |-> 0, text |-> <<>>, payload |-> p,
     bytes |-> "all"]

\* C16 (ping answered with pong): the step in which the reader loop of an open
\* connection takes a PING frame enqueues a PONG frame with the same payload
\* for the writer loop.
C16_PingPong ==
    [][\A c \in Conns :
        ReaderTakes(c)
        => LET f == ParseFrame(Head(inbox[c])) IN
           f.op = "PING" => outgoing'[c] = Append(outgoing[c], PongFrame(f.payload))
      ]_vars

\* handle_connection has ended on connection c after an upgrade request that
\* failed validation.
HandshakeFailed(c) == hsReq[c] = "invalid" /\ connPc[c] = "done"

\* C17 (handshake failure): when the upgrade request fails validation, an HTTP
\* error response (400 or 426) is written and the socket closed; the state
\* never becomes OPEN and no WebSocket frame is written on the connection.
C17_HandshakeFailure ==
    \A c \in Conns :
        /\ hsReq[c] = "invalid" => protoState[c] # "OPEN"
        /\ HandshakeFailed(c)
           => /\ \E i \in DOMAIN written[c] :
                    written[c][i] \in {HttpResponse(HttpBadRequest),
                                       HttpResponse(HttpUpgradeRequired)}
              /\ sockClosed[c]
              /\ \A i \in DOMAIN written[c] : written[c][i].op = "HTTP"

\* The peer has closed its side of the socket, or a CLOSE frame of it is on its
\* way to the reader, on a session that is open and among the live sessions.
PeerClosedOpenSession(c) ==
    /\ c \in clients
    /\ protoState[c] = "OPEN"
    /\ ~ClientClosed(c)
    /\ \/ peerEof[c]
       \/ \E k \in DOMAIN inbox[c] : ParseFrame(inbox[c][k]).op = "CLOSE"

\* C18 (session lifecycle liveness): after the peer closes the socket or sends
\* a CLOSE frame on an open session, the session is eventually closed and
\* removed from the server's set of live sessions.
C18_SessionEnds ==
    \A c \in MainConns :
        PeerClosedOpenSession(c) ~> (cClosed[c] /\ c \notin clients)

\* The bytes of every frame in the sequence of writes w are contiguous: a write
\* carries a whole frame, or a frame's header with that frame's payload as the
\* very next write (if it was written yet), and no payload comes without its
\* header just before it.
Contiguous(w) ==
    \A k \in DOMAIN w :
        /\ w[k].bytes = "header"
           => k = Len(w) \/ w[k + 1] = [w[k] EXCEPT !.bytes = "payload"]
        /\ w[k].bytes = "payload"
           => k > 1 /\ w[k - 1] = [w[k] EXCEPT !.bytes = "header"]

\* C19 (single writer): whatever handler tasks send on a session at the same
\* time, and whenever close writes its frame, the bytes of each frame reach the
\* socket contiguously: no two frames' bytes are interleaved.
C19_SingleWriter ==
    \A c \in Conns : Contiguous(written[c])

\* Two handler tasks are inside send on the same session at once, one with a
\* command request and one with an unsubscribe, both frames are on the socket,
\* and close wrote its frame after them while they still await drain.
C19_Witness ==
    \E c \in Conns : \E i, j \in DOMAIN htasks :
        /\ htasks[i].conn = c /\ htasks[j].conn = c
        /\ htasks[i].st = "send"
        /\ htasks[j].st = "sub_send" /\ htasks[j].call = "unsubscribe"
        /\ \E k \in DOMAIN written[c] : written[c][k].purpose = "commandRequest"
        /\ \E k \in DOMAIN written[c] : written[c][k].purpose = "unsubscribe"
        /\ written[c][Len(written[c])].op = "CLOSE"

\* The run_command call of task i ends in this step with a timeout or a
\* command error.
CallFailsLocally(i) ==
    /\ htasks[i].out = NoOut
    /\ htasks'[i].out.kind \in {"timeout", "command_error"}

\* C20 (local command errors): the step in which a run_command call fails with
\* a timeout or a command error changes no other handler task and no other
\* waiter, takes only that call's entry out of the pending-request table, and
\* leaves the subscription set, the open/closed state of the session and what
\* was written on it unchanged.
C20_LocalCommandErrors ==
    [][\A c \in Conns : \A i \in Calls(c) :
        CallFailsLocally(i)
        => /\ \A j \in DOMAIN htasks \ {i} : htasks'[j] = htasks[j]
           /\ DOMAIN htasks' = DOMAIN htasks
           /\ pending'[c] = pending[c] \ {htasks[i].rid}
           /\ subscribed'[c] = subscribed[c]
           /\ cClosed'[c] = cClosed[c]
           /\ hClosed'[c] = hClosed[c]
           /\ written'[c] = written[c]
           /\ clients' = clients
      ]_vars

\* On one open session a call failed with a timeout or a command error, and a
\* command issued after it got its reply and returned successfully.
C20_Witness ==
    \E c \in Conns : \E i, j \in Calls(c) :
        /\ htasks[i].out.kind \in {"timeout", "command_error"}
        /\ htasks[j].rid > htasks[i].rid
        /\ htasks[j].out.kind = "ok"
        /\ ~ClientClosed(c)
        /\ c \in clients

\* A _shutdown task has begun to close the live sessions: it called
\* _cleanup_client on one of them.
SessionClosingBegun ==
    /\ \E k \in ShutdownTasks : sd[k].pc \notin {"none", "start"}
    /\ \E c \in Conns : cClosed[c]

\* Every _shutdown that was started has returned, and server_main's own has.
ShutdownComplete ==
    /\ sd["S2"].pc = "done"
    /\ sd["S1"].pc \in {"none", "done"}

\* C21 (shutdown ordering): once a _shutdown has begun closing live sessions
\* the listener is closed and no connection is accepted, and when shutdown is
\* complete no session is left in the set of live sessions.
C21_ShutdownOrdering ==
    [][/\ SessionClosingBegun => ~listening
       /\ \A c \in Conns :
             (connPc[c] = "none" /\ connPc'[c] # "none") => ~SessionClosingBegun
       /\ ShutdownComplete => clients = {}
      ]_vars

\* Handler task i was dispatched for session c and has not ended: it has not
\* started yet, or is suspended in the send or the wait of run_command.
StillRunning(c, i) ==
    /\ htasks[i].conn = c
    /\ htasks[i].st \in {"ready", "send", "wait"}

\* C22 (session close cancels handlers): with the server running, the step in
\* which the close of a session runs to its end leaves no handler task that
\* was dispatched for that session still running.
C22_CloseCancelsHandlers ==
    [][\A c \in Conns :
        (running /\ ~ClientCloseReturned(c) /\ ClientCloseReturned(c)')
        => \A i \in DOMAIN htasks : StillRunning(c, i) => ~StillRunning(c, i)'
      ]_vars

\* C23 (purpose-gated delivery): handling a message whose purpose is neither
\* commandResponse nor error completes no waiter, whatever requestId its header
\* carries: every future is after the step what it was before.
C23_PurposeGatedDelivery ==
    [][\A c \in Conns :
        ( /\ HandlesMessage(c)
          /\ Head(msgTasks[c]).purpose \notin {"commandResponse", "error"} )
        => \A i \in DOMAIN htasks : htasks'[i].fut = htasks[i].fut
      ]_vars

\* C24 (peer-initiated close): the step in which the reader loop takes a CLOSE
\* frame while the connection is OPEN writes a close frame with the payload of
\* the frame received and moves the connection state to CLOSING.
C24_CloseEchoed ==
    [][\A c \in Conns :
        ( /\ ReaderTakes(c)
          /\ ParseFrame(Head(inbox[c])).op = "CLOSE"
          /\ protoState[c] = "OPEN" )
        => /\ protoState'[c] = "CLOSING"
           /\ written'[c] =
                  Append(written[c],
                         [CloseFrame(CloseCode_NORMAL) EXCEPT
                             !.payload = ParseFrame(Head(inbox[c])).payload])
      ]_vars

\* C25 (server-initiated close): after the server has sent its close frame the
\* connection is in CLOSING with the socket still up until the peer's close
\* frame arrives or the close timeout fires.  Checked where neither happens:
\* the peer of the shutdown specification sends no close frame, the server
\* arms no close timeout, and connections that the peer has left are set aside.
C25_CloseWaitsForPeer ==
    \A c \in Conns :
        (CloseFramesSent(c) # {} /\ ~peerEof[c])
        => /\ protoState[c] = "CLOSING"
           /\ ~sockClosed[c]

\* The complete text messages among the frames one socket read returned.
RECURSIVE TextsOf(_)
TextsOf(chunk) ==
    IF chunk = <<>> THEN <<>>
    ELSE IF Head(chunk).op = "TEXT" /\ Head(chunk).fin
    THEN <<Head(chunk).msg>> \o TextsOf(Tail(chunk))
    ELSE TextsOf(Tail(chunk))

\* C26 (reader completeness): whatever a socket read of an open connection
\* returns, one whole frame or several frames at once, every complete text
\* message in it is delivered to the session exactly once, in order.
C26_ReaderCompleteness ==
    [][\A c \in Conns :
        ( /\ ReaderTakes(c)
          /\ \A k \in DOMAIN Head(inbox[c]) :
                Head(inbox[c])[k].op = "TEXT" /\ Head(inbox[c])[k].fin )
        => queue'[c] = queue[c] \o TextsOf(Head(inbox[c]))
      ]_vars

\* The place of a message in the order the peer sent OrderFrames.
ArrivalRank(m) == IF m.eventName = "BlockPlaced" THEN 1 ELSE 2

\* The messages of a session that were received and not yet processed, oldest
\* stage first: _handle_message tasks, the message queue, the socket buffer.
Unprocessed(c) ==
    [k \in 1..Len(msgTasks[c]) |-> ArrivalRank(msgTasks[c][k])]
    \o [k \in 1..Len(queue[c]) |-> ArrivalRank(queue[c][k])]
    \o [k \in 1..Len(inbox[c]) |-> ArrivalRank(ParseFrame(inbox[c][k]).msg)]

\* C27 (receive ordering): within one session the messages wait in arrival
\* order at every stage (socket buffer, message queue, _handle_message tasks),
\* and the handlers of the later message are started only when the earlier
\* message has been processed.
C27_ReceiveOrdering ==
    \A c \in Conns :
        /\ \A j, k \in DOMAIN Unprocessed(c) :
              j < k => Unprocessed(c)[j] <= Unprocessed(c)[k]
        /\ (\E i \in DOMAIN htasks : htasks[i].conn = c)
           => \A k \in DOMAIN Unprocessed(c) : Unprocessed(c)[k] # 1

\* Both messages were processed in turn: the handlers of the second are started.
C27_Witness ==
    \E c \in Conns :
        /\ nSent[c] = Len(OrderFrames)
        /\ Unprocessed(c) = <<>>
        /\ Len(htasks) = 2
        /\ \A i \in DOMAIN htasks : htasks[i].conn = c

\* A reply was delivered to the waiter of task i's call on session c, and the
\* message the oldest _handle_message task holds carries the same requestId.
FurtherReply(c, i) ==
    /\ msgTasks[c] # <<>>
    /\ htasks[i].conn = c
    /\ htasks[i].rid # 0
    /\ htasks[i].rid = Head(msgTasks[c]).rid
    /\ htasks[i].fut.st = "set"

\* C28 (one-shot waiter): handling a further reply to a requestId whose waiter
\* already has its reply, before or after the caller resumed, changes nothing:
\* the call keeps the first reply and its outcome, no task is added or ended,
\* and the session's table, subscriptions and closed flag stay as they are.
C28_OneShotWaiter ==
    [][\A c \in Conns : \A i \in DOMAIN htasks :
        (HandlesMessage(c) /\ FurtherReply(c, i))
        => /\ htasks' = htasks
           /\ pending'[c] = pending[c]
           /\ subscribed'[c] = subscribed[c]
           /\ cClosed'[c] = cClosed[c]
           /\ clientPc'[c] = clientPc[c]
      ]_vars

\* A second, different reply to a call whose waiter holds the first is about to
\* be handled while the caller has not yet resumed.
C28_Witness ==
    \E c \in Conns : \E i \in DOMAIN htasks :
        /\ FurtherReply(c, i)
        /\ htasks[i].st = "wait"
        /\ Head(msgTasks[c]) # htasks[i].fut.val

\* The same after the caller has resumed and its entry is gone from the table.
C28_WitnessResumed ==
    \E c \in Conns : \E i \in DOMAIN htasks :
        /\ FurtherReply(c, i)
        /\ htasks[i].st \in {"done", "failed"}
        /\ htasks[i].rid \notin pending[c]

\* The call of task i is suspended in run_command with its future not done.
AwaitsReply(i) ==
    /\ htasks[i].st \in {"send", "wait"}
    /\ htasks[i].fut.st = "pending"

\* C29 (install before send): the step that writes the commandRequest of
\* requestId R leaves R in the pending-request table, and a message carrying R
\* that is handled while the call is suspended, in send_message or in wait_for,
\* is set as the result of the call's future.
C29_InstallBeforeSend ==
    [][\A c \in Conns :
        /\ \A r \in RIDs :
              ( /\ \A k \in DOMAIN written[c] : written[c][k].rid # r
                /\ \E k \in DOMAIN written'[c] :
                      written'[c][k].purpose = "commandRequest" /\ written'[c][k].rid = r )
              => r \in pending'[c]
        /\ \A i \in DOMAIN htasks :
              ( /\ HandlesMessage(c)
                /\ htasks[i].conn = c
                /\ AwaitsReply(i)
                /\ Head(msgTasks[c]).rid = htasks[i].rid )
              => htasks'[i].fut = Fut("set", Head(msgTasks[c]))
      ]_vars

\* A reply arrived while the call was still suspended in send_message, and was
\* delivered to its future.
C29_Witness ==
    \E i \in DOMAIN htasks :
        /\ htasks[i].st = "send"
        /\ htasks[i].fut.st = "set"
        /\ htasks[i].fut.val.rid = htasks[i].rid

\* The requestIds of the run_command calls in progress on session c: suspended
\* in send_message or wait_for, or cancelled there and not yet resumed.
InProgress(c) ==
    {htasks[i].rid : i \in {j \in Calls(c) : htasks[j].st \in {"send", "wait", "cancelling"}}}

\* C30 (the pending table holds only in-flight calls): every entry of a
\* session's pending-request table belongs to a run_command call that is in
\* progress on that session; with no call in progress the table is empty.
C30_PendingOnlyInFlight ==
    \A c \in Conns : pending[c] \subseteq InProgress(c)

\* Two calls of a session have ended, one on a failed send and one by
\* cancellation of its handler task, and the table is empty.
C30_Witness ==
    \E c \in Conns : \E i, j \in Calls(c) :
        /\ htasks[i].out.kind = "client_error"
        /\ htasks[i].out.msg = "Failed to send message"
        /\ htasks[j].out.kind = "cancelled"
        /\ InProgress(c) = {}
        /\ pending[c] = {}

\* Handler task i is suspended in the send of its subscribe or unsubscribe
\* message for ev on session c.
SuspendedInSend(i, c, call, ev) ==
    /\ htasks[i].conn = c
    /\ htasks[i].st = "sub_send"
    /\ htasks[i].call = call
    /\ htasks[i].ev = ev

\* C31 (concurrent subscribe): while one task is suspended in the send of its
\* subscribe message for an event name, a subscribe of the same name that
\* another task starts on the same session writes no second message.
C31_ConcurrentSubscribe ==
    [][\A c \in Conns : \A ev \in EventTypes : \A i, j \in DOMAIN htasks :
        ( /\ i # j
          /\ SuspendedInSend(i, c, "subscribe", ev)
          /\ htasks[j].conn = c
          /\ SubCalls(j, "subscribe")
          /\ htasks'[j].ev = ev )
        => written'[c] = written[c]
      ]_vars

\* C32 (concurrent unsubscribe): the send of an unsubscribe message that
\* returns on a connection that is up ends the call without an error and with
\* the name out of the subscription set, also when another unsubscribe of the
\* same name was in its send at the same time.
C32_ConcurrentUnsubscribe ==
    [][\A c \in Conns : \A ev \in EventTypes : \A i \in DOMAIN htasks :
        ( /\ SuspendedInSend(i, c, "unsubscribe", ev)
          /\ ~peerEof[c] /\ ~sockClosed[c] /\ ~hClosed[c]
          /\ htasks'[i].st # "sub_send" )
        => /\ htasks'[i].st = "done"
           /\ htasks'[i].out = NoOut
           /\ ev \notin subscribed'[c]
      ]_vars

\* C33 (no dispatch after close): no handler task is started for a session on
\* which Client.close has been called, also not by a _handle_message task that
\* was created before the close and runs after it.
C33_NoDispatchAfterClose ==
    [][\A i \in DOMAIN htasks' \ DOMAIN htasks : ~cClosed[htasks'[i].conn]]_vars

====
